---- MODULE Spec2Model ----
(***************************************************************************)
(* next-l402: L402 token issuance (createChallengeResponse), validation    *)
(* (validateToken), the l402 middleware and the session cache.             *)
(*                                                                         *)
(* Text is modelled as a sequence of tokens (Str).  A token is one         *)
(* character ("a", "=", " ", "/") or an indivisible word that the code     *)
(* only ever handles as a whole ("payment_hash", "L402", "GET").  Bytes    *)
(* are integers 0..255.                                                    *)
(***************************************************************************)
EXTENDS Integers, Sequences, FiniteSets, TLC

(***************************************************************************)
(* Bounds of the model.                                                    *)
(***************************************************************************)
MaxTicks == 1
MaxIssued == 1
MaxChallenges == 2

(***************************************************************************)
(* Program constants.                                                      *)
(***************************************************************************)
DEFAULT_PRICE_SATS == 100
DEFAULT_TOKEN_VALIDITY_SECONDS == 24 * 60 * 60
DigestBytes == 32
UuidBytes == 16

(***************************************************************************)
(* Generic sequence helpers.                                               *)
(***************************************************************************)
Range(s) == {s[i] : i \in 1..Len(s)}

Drop(s, n) == SubSeq(s, n + 1, Len(s))

Take(s, n) == SubSeq(s, 1, n)

RECURSIVE Flatten(_)
Flatten(ss) == IF ss = <<>> THEN <<>> ELSE Head(ss) \o Flatten(Tail(ss))

\* String.prototype.indexOf for a one-token needle: 0 when absent, else the
\* 1-based position of the first occurrence.
IndexOf(s, tok) ==
    IF tok \in Range(s) THEN CHOOSE i \in 1..Len(s) : s[i] = tok /\ \A j \in 1..(i-1) : s[j] # tok
    ELSE 0

\* String.prototype.includes for a needle given as a token sequence.
Includes(s, needle) ==
    \E i \in 0..(Len(s) - Len(needle)) : SubSeq(s, i + 1, i + Len(needle)) = needle

\* String.prototype.trim: strips leading and trailing " " tokens.
RECURSIVE TrimLeft(_)
TrimLeft(s) == IF s # <<>> /\ Head(s) = " " THEN TrimLeft(Tail(s)) ELSE s

RECURSIVE TrimRight(_)
TrimRight(s) == IF s # <<>> /\ s[Len(s)] = " " THEN TrimRight(Take(s, Len(s) - 1)) ELSE s

Trim(s) == TrimRight(TrimLeft(s))

(***************************************************************************)
(* Buffer encodings: 'hex', 'base64', utf-8 and decimal number formatting. *)
(***************************************************************************)
HexDigits == <<"0", "1", "2", "3", "4", "5", "6", "7", "8", "9", "a", "b", "c", "d", "e", "f">>

UpperHexDigits == <<"0", "1", "2", "3", "4", "5", "6", "7", "8", "9", "A", "B", "C", "D", "E", "F">>

HexChars == Range(HexDigits) \cup Range(UpperHexDigits)

HexValues ==
    [c \in HexChars |->
        (CHOOSE i \in 1..16 : HexDigits[i] = c \/ UpperHexDigits[i] = c) - 1]

IsHexChar(c) == c \in HexChars

HexVal(c) == HexValues[c]

\* Buffer.from(text, 'hex'): decodes digit pairs and stops at the first pair
\* that is not two hexadecimal digits (a trailing odd digit is dropped).
RECURSIVE HexDecode(_)
HexDecode(s) ==
    IF Len(s) < 2 \/ ~IsHexChar(s[1]) \/ ~IsHexChar(s[2]) THEN <<>>
    ELSE <<16 * HexVal(s[1]) + HexVal(s[2])>> \o HexDecode(Drop(s, 2))

\* buf.toString('hex') and b.toString(16).padStart(2, '0') joined.
HexEncode(b) ==
    [i \in 1..(2 * Len(b)) |->
        IF i % 2 = 1 THEN HexDigits[(b[(i + 1) \div 2] \div 16) + 1]
        ELSE HexDigits[(b[i \div 2] % 16) + 1]]

Base64Alphabet ==
    <<"A", "B", "C", "D", "E", "F", "G", "H", "I", "J", "K", "L", "M",
      "N", "O", "P", "Q", "R", "S", "T", "U", "V", "W", "X", "Y", "Z",
      "a", "b", "c", "d", "e", "f", "g", "h", "i", "j", "k", "l", "m",
      "n", "o", "p", "q", "r", "s", "t", "u", "v", "w", "x", "y", "z",
      "0", "1", "2", "3", "4", "5", "6", "7", "8", "9", "+", "/">>

\* buf.toString('base64'): standard alphabet, "=" padding.
Base64Encode(b) ==
    LET n == Len(b)
        At(i) == IF i <= n THEN b[i] ELSE 0
        Sextet(g, k) ==
            CASE k = 0 -> At(3 * g + 1) \div 4
              [] k = 1 -> (At(3 * g + 1) % 4) * 16 + At(3 * g + 2) \div 16
              [] k = 2 -> (At(3 * g + 2) % 16) * 4 + At(3 * g + 3) \div 64
              [] OTHER -> At(3 * g + 3) % 64
        Padded(g, k) == (k = 2 /\ 3 * g + 2 > n) \/ (k = 3 /\ 3 * g + 3 > n)
    IN  [i \in 1..(4 * ((n + 2) \div 3)) |->
            LET g == (i - 1) \div 4
                k == (i - 1) % 4
            IN  IF Padded(g, k) THEN "=" ELSE Base64Alphabet[Sextet(g, k) + 1]]

Base64Chars == Range(Base64Alphabet) \cup {"-", "_"}

Base64Values ==
    [c \in Base64Chars |->
        CASE c = "-" -> 62
          [] c = "_" -> 63
          [] OTHER -> (CHOOSE i \in 1..64 : Base64Alphabet[i] = c) - 1]

IsBase64Char(c) == c \in Base64Chars

Base64Val(c) == Base64Values[c]

\* Buffer.from(text, 'base64'): lenient; characters outside the alphabet are
\* skipped and decoding ends at the first "=".
Base64Decode(s) ==
    LET stop == IndexOf(s, "=")
        body == IF stop = 0 THEN s ELSE Take(s, stop - 1)
        sx == SelectSeq(body, IsBase64Char)
        v(i) == Base64Val(sx[i])
        n == (Len(sx) * 6) \div 8
    IN  [j \in 1..n |->
            LET q == ((8 * (j - 1)) \div 6) + 1
                r == (8 * (j - 1)) % 6
            IN  CASE r = 0 -> v(q) * 4 + v(q + 1) \div 16
                  [] r = 2 -> (v(q) % 16) * 16 + v(q + 1) \div 4
                  [] OTHER -> (v(q) % 4) * 64 + v(q + 1)]

\* Number -> decimal text, as a template literal prints a non-negative integer.
RECURSIVE IntToDec(_)
IntToDec(n) ==
    IF n < 10 THEN <<HexDigits[n + 1]>>
    ELSE IntToDec(n \div 10) \o <<HexDigits[(n % 10) + 1]>>

\* TextEncoder.encode over the characters the model's texts use.
TextChars == <<"-", "0", "1", "a", "b", "c", "d", "e", "k", "m", "o", "x", "z", "!">>

TextCodes == <<45, 48, 49, 97, 98, 99, 100, 101, 107, 109, 111, 120, 122, 33>>

CharCodes == [c \in Range(TextChars) |-> TextCodes[CHOOSE i \in 1..Len(TextChars) : TextChars[i] = c]]

CharCode(c) == IF c \in DOMAIN CharCodes THEN CharCodes[c] ELSE 63

Utf8Encode(s) == [i \in 1..Len(s) |-> CharCode(s[i])]

(***************************************************************************)
(* SHA-256 (crypto.subtle.digest / the node's hash of the preimage).  The  *)
(* digest is a deterministic DigestBytes-byte function of the input; the   *)
(* compression function itself is replaced by a fold that keeps distinct   *)
(* inputs of the model apart.                                              *)
(***************************************************************************)
RECURSIVE Sha256Fold(_, _)
Sha256Fold(b, h) ==
    IF b = <<>> THEN h ELSE Sha256Fold(Tail(b), (h * 31 + Head(b) + 7) % 65521)

Sha256(b) ==
    LET h == Sha256Fold(b, 5381 + Len(b))
    IN  [i \in 1..DigestBytes |->
            CASE i = 1 -> h % 256
              [] i = 2 -> (h \div 256) % 256
              [] OTHER -> (h * i + i) % 256]

(***************************************************************************)
(* macaroons.js (library): HMAC-chained macaroons.  HMAC-SHA256 is the     *)
(* collision-free idealisation: the MAC of a message under a key is the    *)
(* transcript of both, so two MACs agree exactly when key and message do.  *)
(***************************************************************************)
Hmac(key, msg) == <<"<hmac>">> \o key \o <<"<msg>">> \o msg \o <<"</hmac>">>

DerivedKey(keyText) == Hmac(<<"macaroons-key-generator">>, keyText)

\* new MacaroonsBuilder(location, secretKey, identifier)
MacaroonsBuilder(location, keyText, identifier) ==
    [location |-> location, identifier |-> identifier, caveats |-> <<>>,
     signature |-> Hmac(DerivedKey(keyText), identifier)]

\* Slip: the caveat is listed but not chained into the signature.
AddFirstPartyCaveat_Unchained(m, caveat) ==
    [m EXCEPT !.caveats = Append(@, caveat)]

\* builder.add_first_party_caveat(caveat)
AddFirstPartyCaveat(m, caveat) ==
    [m EXCEPT !.caveats = Append(@, caveat), !.signature = Hmac(@, caveat)]

RECURSIVE AddFirstPartyCaveats(_, _)
AddFirstPartyCaveats(m, cs) ==
    IF cs = <<>> THEN m ELSE AddFirstPartyCaveats(AddFirstPartyCaveat(m, Head(cs)), Tail(cs))

\* Slip: the chain is not recomputed under the key.
VerifierIsValid_AnyKey(m, keyText, satisfied) ==
    \A i \in 1..Len(m.caveats) : m.caveats[i] \in satisfied

\* new MacaroonsVerifier(m) + satisfyExact(...) + isValid(key): every
\* first-party caveat must be met by a registered predicate and the chain
\* recomputed under the key must end in the macaroon's signature.
VerifierIsValid(m, keyText, satisfied) ==
    /\ \A i \in 1..Len(m.caveats) : m.caveats[i] \in satisfied
    /\ AddFirstPartyCaveats(MacaroonsBuilder(m.location, keyText, m.identifier), m.caveats).signature
         = m.signature

\* Packet framing of the portable serialization: a 4-hex-digit length (of the
\* whole packet, counted in tokens), the field name, a space, the data and a
\* line feed.  The library wraps the packets in base64url, an alphabet that
\* has neither ':' nor '"'; no token of a packet is one of these.
PacketLen(n) ==
    <<HexDigits[((n \div 4096) % 16) + 1], HexDigits[((n \div 256) % 16) + 1],
      HexDigits[((n \div 16) % 16) + 1], HexDigits[(n % 16) + 1]>>

Packet(key, data) == PacketLen(Len(data) + 7) \o <<key, " ">> \o data \o <<"\n">>

\* Slip: the signature packet is cut short by one token.
Serialize_TruncatedSignature(m) ==
    Packet("location", m.location) \o Packet("identifier", m.identifier)
      \o Flatten([i \in 1..Len(m.caveats) |-> Packet("cid", m.caveats[i])])
      \o Packet("signature", Take(m.signature, Len(m.signature) - 1))

\* macaroon.serialize()
Serialize(m) ==
    Packet("location", m.location) \o Packet("identifier", m.identifier)
      \o Flatten([i \in 1..Len(m.caveats) |-> Packet("cid", m.caveats[i])])
      \o Packet("signature", m.signature)

BadPacket == [key |-> "bad", data |-> <<>>]

RECURSIVE ParsePackets(_)
ParsePackets(s) ==
    IF s = <<>> THEN <<>>
    ELSE IF Len(s) < 7 \/ \E i \in 1..4 : ~IsHexChar(s[i]) THEN <<BadPacket>>
    ELSE LET n == 4096 * HexVal(s[1]) + 256 * HexVal(s[2]) + 16 * HexVal(s[3]) + HexVal(s[4])
         IN  IF n < 7 \/ n > Len(s) \/ s[6] # " " \/ s[n] # "\n" THEN <<BadPacket>>
             ELSE <<[key |-> s[5], data |-> SubSeq(s, 7, n - 1)]>> \o ParsePackets(Drop(s, n))

\* MacaroonsBuilder.deserialize(text) throws unless the text is a location,
\* an identifier, first-party caveat ids and a signature, in that order.
DeserializeOk(text) ==
    LET pk == ParsePackets(text)
    IN  /\ Len(pk) >= 3
        /\ pk[1].key = "location"
        /\ pk[2].key = "identifier"
        /\ pk[Len(pk)].key = "signature"
        /\ \A i \in 3..(Len(pk) - 1) : pk[i].key = "cid"

Deserialize(text) ==
    LET pk == ParsePackets(text)
    IN  [location |-> pk[1].data, identifier |-> pk[2].data,
         caveats |-> [i \in 1..(Len(pk) - 3) |-> pk[i + 2].data],
         signature |-> pk[Len(pk)].data]

(***************************************************************************)
(* Caveats.  A caveat is {type, value, validator?}; a value is a number, a *)
(* string, an array of strings or an object.                               *)
(***************************************************************************)
NumberValue(n) == [kind |-> "number", num |-> n, text |-> <<>>, items |-> <<>>]

StringValue(s) == [kind |-> "string", num |-> 0, text |-> s, items |-> <<>>]

ArrayValue(items) == [kind |-> "array", num |-> 0, text |-> <<>>, items |-> items]

ObjectValue == [kind |-> "object", num |-> 0, text |-> <<>>, items |-> <<>>]

CaveatObj(type, value, validator) == [type |-> type, value |-> value, validator |-> validator]

RECURSIVE JoinComma(_)
JoinComma(items) ==
    IF items = <<>> THEN <<>>
    ELSE IF Len(items) = 1 THEN items[1]
    ELSE items[1] \o <<",">> \o JoinComma(Tail(items))

\* `${caveat.value}`: how a template literal prints the value.
ValueToString(v) ==
    CASE v.kind = "number" -> IntToDec(v.num)
      [] v.kind = "string" -> v.text
      [] v.kind = "array" -> JoinComma(v.items)
      [] OTHER -> <<"[object Object]">>

\* `${caveat.type} = ${caveat.value}`
CaveatString(c) == c.type \o <<" ", "=", " ">> \o ValueToString(c.value)

\* The one-character tokens of the model's paths.
PathChars == {"/", ".", "0", "1", "v", "x"}

\* new RegExp('^' + pattern.replace(/\*/g, '.*').replace(/\//g, '\\/') + '$')
\* tested against a path: "*" becomes ".*" and stands for any run of tokens,
\* "/" is escaped and stands for itself, and nothing else is escaped: a "."
\* of the pattern reaches the regular expression as the metacharacter that
\* matches any one character.  Every other token of the model's patterns is
\* a literal.
RECURSIVE GlobMatch(_, _)
GlobMatch(pattern, path) ==
    IF pattern = <<>> THEN path = <<>>
    ELSE IF Head(pattern) = "*" THEN \E k \in 0..Len(path) : GlobMatch(Tail(pattern), Drop(path, k))
    ELSE IF Head(pattern) = "."
         THEN path # <<>> /\ Head(path) \in PathChars /\ GlobMatch(Tail(pattern), Tail(path))
    ELSE path # <<>> /\ Head(path) = Head(pattern) /\ GlobMatch(Tail(pattern), Tail(path))

\* String.prototype.toUpperCase on the method names of the model.
ToUpperCase(s) ==
    [i \in 1..Len(s) |->
        CASE s[i] = "get" -> "GET"
          [] s[i] = "post" -> "POST"
          [] OTHER -> s[i]]

\* A request header: req.headers.get(name) is null when the header is absent.
HeaderValue(text) == [present |-> TRUE, text |-> text]

AbsentHeader == [present |-> FALSE, text |-> <<>>]

\* header.split(',')[0]
FirstEntry(text) ==
    LET i == IndexOf(text, ",")
    IN  IF i = 0 THEN text ELSE Take(text, i - 1)

\* Slip: the last entry of the header is taken as the client address.
ClientIp_LastEntry(req) ==
    IF ~req.forwardedFor.present THEN <<>>
    ELSE LET text == req.forwardedFor.text
             hits == {i \in 1..Len(text) : text[i] \notin {",", " "}}
         IN  IF hits = {} THEN <<>> ELSE <<text[CHOOSE i \in hits : \A j \in hits : i >= j]>>

\* req.headers.get('x-forwarded-for')?.split(',')[0].trim(); <<>> stands for
\* both undefined and the empty string, which `!ip` treats alike.
ClientIp(req) ==
    IF ~req.forwardedFor.present THEN <<>>
    ELSE Trim(FirstEntry(req.forwardedFor.text))

\* The validator closures of createExpirationCaveat, createPathCaveat,
\* createMethodCaveat and createIpCaveat, named by the constructor that bound
\* them.  "raise" names a custom validator that throws; it returns nothing.
RunValidator(validator, req, value, t) ==
    CASE validator = "expiration" -> (t \div 1000) <= value.num
      [] validator = "path" -> GlobMatch(value.text, req.path)
      [] validator = "method" -> \E i \in 1..Len(value.items) : value.items[i] = ToUpperCase(req.method)
      [] validator = "ip" -> ClientIp(req) # <<>> /\ \E i \in 1..Len(value.items) : value.items[i] = ClientIp(req)
      [] OTHER -> FALSE

\* Slip: a caveat without validator is refused.
validateCaveat_NoValidatorFails(req, caveat, t) ==
    IF caveat.validator = "none" THEN FALSE
    ELSE RunValidator(caveat.validator, req, caveat.value, t)

validateCaveat(req, caveat, t) ==
    IF caveat.validator = "none" THEN TRUE
    ELSE RunValidator(caveat.validator, req, caveat.value, t)

\* How a call of validateCaveat completes: "true", "false", or "throw" when
\* the validator raises.
validateCaveatOutcome(req, caveat, t) ==
    IF caveat.validator = "raise" THEN "throw"
    ELSE IF validateCaveat(req, caveat, t) THEN "true" ELSE "false"

\* caveats.every(caveat => validateCaveat(req, caveat)): left to right, ended
\* by the first caveat that does not return true.
RECURSIVE validateCaveatsOutcome(_, _, _)
validateCaveatsOutcome(req, caveats, t) ==
    IF caveats = <<>> THEN "true"
    ELSE LET o == validateCaveatOutcome(req, Head(caveats), t)
         IN  IF o = "true" THEN validateCaveatsOutcome(req, Tail(caveats), t) ELSE o

\* Slip: one passing caveat is enough.
validateCaveats_Some(req, caveats, t) ==
    caveats = <<>> \/ \E i \in 1..Len(caveats) : validateCaveat(req, caveats[i], t)

validateCaveats(req, caveats, t) == validateCaveatsOutcome(req, caveats, t) = "true"

(***************************************************************************)
(* token-utils.ts                                                          *)
(***************************************************************************)
Token(macaroon, preimage) == [macaroon |-> macaroon, preimage |-> preimage, null |-> FALSE]

Null == [macaroon |-> <<>>, preimage |-> <<>>, null |-> TRUE]

\* A request without an Authorization header: headers.get returns null,
\* which `!authHeader` treats like the empty header.
NoHeader == <<>>

\* Slip: a credential without a colon is taken as a token.
extractTokenFromHeader_NoColonCheck(req) ==
    LET authHeader == req.authorization
    IN  IF authHeader = NoHeader \/ Len(authHeader) < 2 \/ Take(authHeader, 2) # <<"L402", " ">>
        THEN Null
        ELSE LET tokenPart == Drop(authHeader, 2)
                 colonIndex == IndexOf(tokenPart, ":")
                 macaroon == IF colonIndex = 0 THEN tokenPart ELSE Take(tokenPart, colonIndex - 1)
                 preimage == IF colonIndex = 0 THEN tokenPart ELSE Drop(tokenPart, colonIndex)
             IN  IF macaroon = <<>> \/ preimage = <<>> THEN Null
                 ELSE Token(macaroon, preimage)

\* Slip: the credential is split at its last colon.
extractTokenFromHeader_LastColon(req) ==
    LET authHeader == req.authorization
    IN  IF authHeader = NoHeader \/ Len(authHeader) < 2 \/ Take(authHeader, 2) # <<"L402", " ">>
        THEN Null
        ELSE LET tokenPart == Drop(authHeader, 2)
                 colons == {i \in 1..Len(tokenPart) : tokenPart[i] = ":"}
                 colonIndex == IF colons = {} THEN 0 ELSE CHOOSE i \in colons : \A j \in colons : i >= j
             IN  IF colonIndex = 0 THEN Null
                 ELSE LET macaroon == Take(tokenPart, colonIndex - 1)
                          preimage == Drop(tokenPart, colonIndex)
                      IN  IF macaroon = <<>> \/ preimage = <<>> THEN Null
                          ELSE Token(macaroon, preimage)

extractTokenFromHeader(req) ==
    LET authHeader == req.authorization
    IN  IF authHeader = NoHeader \/ Len(authHeader) < 2 \/ Take(authHeader, 2) # <<"L402", " ">>
        THEN Null
        ELSE LET tokenPart == Drop(authHeader, 2)
                 colonIndex == IndexOf(tokenPart, ":")
             IN  IF colonIndex = 0 THEN Null
                 ELSE LET macaroon == Take(tokenPart, colonIndex - 1)
                          preimage == Drop(tokenPart, colonIndex)
                      IN  IF macaroon = <<>> \/ preimage = <<>> THEN Null
                          ELSE Token(macaroon, preimage)

\* Slip: the invoice field is written first.
createWwwAuthenticateHeader_InvoiceFirst(macaroon, paymentRequest) ==
    <<"L402", " ", "invoice=", "\"">> \o paymentRequest \o <<"\"", ",", " ", "macaroon=", "\"">>
      \o macaroon \o <<"\"">>

createWwwAuthenticateHeader(macaroon, paymentRequest) ==
    <<"L402", " ", "macaroon=", "\"">> \o macaroon \o <<"\"", ",", " ", "invoice=", "\"">>
      \o paymentRequest \o <<"\"">>

\* Slip: the hash is taken as text instead of being decoded from hex.
createMacaroonIdentifier_TextHash(paymentHash, uuid1, uuid2) ==
    LET version == <<0, 0>>
        userId == [i \in 1..32 |->
                     IF i <= Len(uuid1) THEN uuid1[i]
                     ELSE IF Len(uuid1) < 32 /\ i - Len(uuid1) <= Len(uuid2) THEN uuid2[i - Len(uuid1)]
                     ELSE 0]
    IN  version \o userId \o Utf8Encode(paymentHash)

\* userId: 32 zero bytes, the first uuid copied to offset 0, and, the uuid
\* being shorter than 32 bytes, a second uuid copied behind it.  Nothing in
\* the function throws: Buffer.from(text, 'hex') accepts every text and the
\* length of the decoded hash is not looked at.
createMacaroonIdentifier(paymentHash, uuid1, uuid2) ==
    LET version == <<0, 0>>
        userId == [i \in 1..32 |->
                     IF i <= Len(uuid1) THEN uuid1[i]
                     ELSE IF Len(uuid1) < 32 /\ i - Len(uuid1) <= Len(uuid2) THEN uuid2[i - Len(uuid1)]
                     ELSE 0]
        paymentHashBuffer == HexDecode(paymentHash)
    IN  version \o userId \o paymentHashBuffer

\* Slip: the last caveat that names payment_hash is taken.
FindPaymentHashCaveat_Last(caveatPackets) ==
    LET hits == {i \in 1..Len(caveatPackets) : Includes(caveatPackets[i], <<"payment_hash">>)}
    IN  IF hits = {} THEN 0 ELSE CHOOSE i \in hits : \A j \in hits : i >= j

\* caveatPackets.find(c => c.rawValue.toString().includes('payment_hash')):
\* the position of the first such caveat, 0 when there is none.
FindPaymentHashCaveat(caveatPackets) ==
    LET hits == {i \in 1..Len(caveatPackets) : Includes(caveatPackets[i], <<"payment_hash">>)}
    IN  IF hits = {} THEN 0 ELSE CHOOSE i \in hits : \A j \in hits : i <= j

\* caveatStr.match(/payment_hash\s*=\s*(.+)/): the leftmost "payment_hash"
\* that is followed by optional spaces, "=" and at least one more character.
\* The result is the text after that "=" (group 1 with the spaces \s* took),
\* which the caller trims; <<"no-match">> stands for a null match.
AfterEquals(caveatStr, i) ==
    LET rest == TrimLeft(Drop(caveatStr, i))
    IN  IF rest # <<>> /\ Head(rest) = "=" THEN Tail(rest) ELSE <<>>

PaymentHashMatches(caveatStr) ==
    {i \in 1..Len(caveatStr) : caveatStr[i] = "payment_hash" /\ AfterEquals(caveatStr, i) # <<>>}

PaymentHashMatch(caveatStr) ==
    LET m == PaymentHashMatches(caveatStr)
    IN  AfterEquals(caveatStr, CHOOSE i \in m : \A j \in m : i <= j)

\* /^[0-9a-fA-F]+$/.test(preimage) && preimage.length % 2 === 0
IsEvenHex(preimage) ==
    /\ preimage # <<>>
    /\ \A i \in 1..Len(preimage) : IsHexChar(preimage[i])
    /\ Len(preimage) % 2 = 0

\* Slip: the preimage is always hashed as text.
PreimageForHash_AlwaysText(preimage) == Utf8Encode(preimage)

PreimageForHash(preimage) ==
    IF IsEvenHex(preimage) THEN HexDecode(preimage) ELSE Utf8Encode(preimage)

\* String.prototype.split(' = ')
RECURSIVE SplitOnEquals(_)
SplitOnEquals(s) ==
    LET sep == <<" ", "=", " ">>
        hits == {i \in 1..(Len(s) - 2) : SubSeq(s, i, i + 2) = sep}
    IN  IF hits = {} THEN <<s>>
        ELSE LET i == CHOOSE k \in hits : \A j \in hits : k <= j
             IN  <<Take(s, i - 1)>> \o SplitOnEquals(Drop(s, i + 2))

\* The Caveat objects validateToken rebuilds from the caveat packets: the
\* packets without 'payment_hash', split into [type, value], kept when both
\* parts are non-empty.  They carry no validator.
NoValue == [kind |-> "undefined", num |-> 0, text |-> <<>>, items |-> <<>>]

\* Slip: a rebuilt path caveat is given the evaluator of its kind.
ParseCaveat_BindsEvaluator(caveatStr) ==
    LET parts == SplitOnEquals(caveatStr)
    IN  CaveatObj(Trim(parts[1]),
                  IF Len(parts) >= 2 THEN StringValue(Trim(parts[2])) ELSE NoValue,
                  IF Trim(parts[1]) = <<"path">> /\ Len(parts) >= 2 THEN "path" ELSE "none")

ParseCaveat(caveatStr) ==
    LET parts == SplitOnEquals(caveatStr)
    IN  CaveatObj(Trim(parts[1]),
                  IF Len(parts) >= 2 THEN StringValue(Trim(parts[2])) ELSE NoValue,
                  "none")

IsOtherCaveat(caveatStr) == ~Includes(caveatStr, <<"payment_hash">>)

HasTypeAndValue(c) == c.type # <<>> /\ c.value.kind = "string" /\ c.value.text # <<>>

CaveatObjects(caveatPackets) ==
    LET others == SelectSeq(caveatPackets, IsOtherCaveat)
    IN  SelectSeq([i \in 1..Len(others) |-> ParseCaveat(others[i])], HasTypeAndValue)

\* Slip: a token without payment_hash caveat skips the preimage check.
validateTokenTry_NoHashPasses(req, token, secretKey, caveats, t) ==
    IF ~DeserializeOk(token.macaroon) THEN "throw"
    ELSE
      LET macaroon == Deserialize(token.macaroon)
          caveatPackets == macaroon.caveats
          isSignatureValid == VerifierIsValid(macaroon, HexEncode(secretKey), Range(caveatPackets))
          found == FindPaymentHashCaveat(caveatPackets)
      IN  IF ~isSignatureValid THEN "false"
          ELSE IF found = 0
               THEN validateCaveatsOutcome(req, CaveatObjects(caveatPackets) \o caveats, t)
          ELSE IF PaymentHashMatches(caveatPackets[found]) = {} THEN "false"
          ELSE
            LET paymentHash == Trim(PaymentHashMatch(caveatPackets[found]))
                computedPaymentHash == HexEncode(Sha256(PreimageForHash(token.preimage)))
                paymentHashHex == HexEncode(Base64Decode(paymentHash))
            IN  IF computedPaymentHash # paymentHashHex THEN "false"
                ELSE validateCaveatsOutcome(req, CaveatObjects(caveatPackets) \o caveats, t)

\* The try block of validateToken(req, token, secretKey, caveats) evaluated
\* at time t: it returns ("true", "false") or throws ("throw": deserialize
\* rejects the text, or a caveat validator raises).
validateTokenTry(req, token, secretKey, caveats, t) ==
    IF ~DeserializeOk(token.macaroon) THEN "throw"
    ELSE
      LET macaroon == Deserialize(token.macaroon)
          caveatPackets == macaroon.caveats
          isSignatureValid == VerifierIsValid(macaroon, HexEncode(secretKey), Range(caveatPackets))
          found == FindPaymentHashCaveat(caveatPackets)
      IN  IF ~isSignatureValid THEN "false"
          ELSE IF found = 0 THEN "false"
          ELSE IF PaymentHashMatches(caveatPackets[found]) = {} THEN "false"
          ELSE
            LET paymentHash == Trim(PaymentHashMatch(caveatPackets[found]))
                computedPaymentHash == HexEncode(Sha256(PreimageForHash(token.preimage)))
                paymentHashHex == HexEncode(Base64Decode(paymentHash))
            IN  IF computedPaymentHash # paymentHashHex THEN "false"
                ELSE validateCaveatsOutcome(req, CaveatObjects(caveatPackets) \o caveats, t)

\* Slip: the exception is passed on to the caller.
Catch_Rethrow(outcome) == outcome

\* catch { return false }
Catch(outcome) == IF outcome = "throw" THEN "false" ELSE outcome

\* How the call validateToken(...) completes for its caller.
validateTokenCompletion(req, token, secretKey, caveats, t) ==
    Catch(validateTokenTry(req, token, secretKey, caveats, t))

\* Slip: the preimage is not compared with the payment hash.
validateToken_NoPreimageCheck(req, token, secretKey, caveats, t) ==
    IF ~DeserializeOk(token.macaroon) THEN FALSE
    ELSE
      LET macaroon == Deserialize(token.macaroon)
          caveatPackets == macaroon.caveats
          isSignatureValid == VerifierIsValid(macaroon, HexEncode(secretKey), Range(caveatPackets))
          found == FindPaymentHashCaveat(caveatPackets)
      IN  IF ~isSignatureValid THEN FALSE
          ELSE IF found = 0 THEN FALSE
          ELSE IF PaymentHashMatches(caveatPackets[found]) = {} THEN FALSE
          ELSE validateCaveats(req, CaveatObjects(caveatPackets) \o caveats, t)

\* The boolean validateToken(...) resolves to.
validateToken(req, token, secretKey, caveats, t) ==
    validateTokenCompletion(req, token, secretKey, caveats, t) = "true"

(***************************************************************************)
(* middleware.ts                                                           *)
(***************************************************************************)
\* createRouteMatcher(patterns)(req)
RouteMatches(patterns, req) == \E i \in 1..Len(patterns) : GlobMatch(patterns[i], req.path)

\* encodeURIComponent on a path: "/" is escaped, the words are kept.
EncodeURIComponent(s) == [i \in 1..Len(s) |-> IF s[i] = "/" THEN "%2F" ELSE s[i]]

\* NextResponse.next()
NextResponseNext == [status |-> 200, next |-> TRUE, headers |-> <<>>, body |-> <<>>]

PaymentRequiredResponse(challengeEndpoint, routeKey) ==
    [status |-> 402, next |-> FALSE,
     headers |-> [n \in {"Content-Type"} |-> <<"text/plain">>],
     body |-> <<"Payment Required - Visit ">> \o challengeEndpoint \o <<"?route=">>
                \o EncodeURIComponent(routeKey) \o <<" to generate payment challenge">>]

\* The handler l402(options) returns, run on one request at time t.  The
\* result records the response and whether a token was extracted and given
\* to validateToken.
DEFAULT_CHALLENGE_ENDPOINT == <<"/", "api", "/", "l402", "/", "challenge">>

\* Slip: the matcher is not consulted.
l402Middleware_NoMatcher(options, req, t) ==
    LET token == extractTokenFromHeader(req)
        valid == ~token.null /\ validateToken(req, token, options.secretKey, options.caveats, t)
    IN  [response |-> IF valid THEN NextResponseNext
                      ELSE PaymentRequiredResponse(DEFAULT_CHALLENGE_ENDPOINT, req.path),
         matched |-> TRUE, token |-> token, validated |-> ~token.null]

\* Slip: a token that fails validation is answered 401, a missing one 402.
l402Middleware_InvalidTokenStatus(options, req, t) ==
    IF ~RouteMatches(options.matcher, req)
    THEN [response |-> NextResponseNext, matched |-> FALSE, token |-> Null, validated |-> FALSE]
    ELSE LET token == extractTokenFromHeader(req)
             valid == ~token.null /\ validateToken(req, token, options.secretKey, options.caveats, t)
             challenge == PaymentRequiredResponse(DEFAULT_CHALLENGE_ENDPOINT, req.path)
         IN  [response |-> IF valid THEN NextResponseNext
                           ELSE IF token.null THEN challenge
                           ELSE [challenge EXCEPT !.status = 401],
              matched |-> TRUE, token |-> token, validated |-> ~token.null]

l402Middleware(options, req, t) ==
    IF ~RouteMatches(options.matcher, req)
    THEN [response |-> NextResponseNext, matched |-> FALSE, token |-> Null, validated |-> FALSE]
    ELSE LET token == extractTokenFromHeader(req)
             valid == ~token.null /\ validateToken(req, token, options.secretKey, options.caveats, t)
         IN  [response |-> IF valid THEN NextResponseNext
                           ELSE PaymentRequiredResponse(DEFAULT_CHALLENGE_ENDPOINT, req.path),
              matched |-> TRUE, token |-> token, validated |-> ~token.null]

(***************************************************************************)
(* cache.ts: one NodeCache holding sessions under the payment hash and     *)
(* route challenges under 'challenge:' + route.                            *)
(***************************************************************************)
CACHE_TTL_SECONDS == 3600

EmptyCache == <<>>

\* Slip: an entry that exists is kept.
CacheSet_KeepExisting(c, key, value, t) ==
    IF key \in DOMAIN c THEN c
    ELSE [k \in DOMAIN c \cup {key} |->
            IF k = key THEN [v |-> value, t |-> t + CACHE_TTL_SECONDS * 1000] ELSE c[k]]

\* cache.set(key, value) at time t.
CacheSet(c, key, value, t) ==
    [k \in DOMAIN c \cup {key} |->
        IF k = key THEN [v |-> value, t |-> t + CACHE_TTL_SECONDS * 1000] ELSE c[k]]

setSession(c, paymentHash, session, t) == CacheSet(c, paymentHash, session, t)

setCachedChallenge(c, routeKey, challenge, t) == CacheSet(c, <<"challenge:">> \o routeKey, challenge, t)

(***************************************************************************)
(* The payment backend (LightningClient): createInvoice hashes a preimage  *)
(* the node chose; verifyPayment reports whether the invoice is settled.   *)
(***************************************************************************)
createInvoice(amountSats, preimage) ==
    LET paymentHash == HexEncode(Sha256(preimage))
    IN  [paymentHash |-> paymentHash,
         paymentRequest |-> <<"lnbc">> \o IntToDec(amountSats) \o <<"u1p">> \o Take(paymentHash, 10),
         amountSats |-> amountSats]

(***************************************************************************)
(* challenge.ts                                                            *)
(***************************************************************************)
DEFAULT_LOCATION == <<"https://localhost:3000">>

\* Slip: the caller's caveats are added before the required ones.
ChallengeMacaroon_CustomFirst(options, secretKey, invoice, uuid1, uuid2, t) ==
    LET identifier == createMacaroonIdentifier(invoice.paymentHash, uuid1, uuid2)
        location == IF options.location # <<>> THEN options.location ELSE DEFAULT_LOCATION
        builder == MacaroonsBuilder(location, HexEncode(secretKey), Base64Encode(identifier))
        required == <<<<"payment_hash", " ", "=", " ">> \o Base64Encode(HexDecode(invoice.paymentHash)),
                      <<"expiration", " ", "=", " ">> \o IntToDec(t + DEFAULT_TOKEN_VALIDITY_SECONDS * 1000)>>
        custom == [i \in 1..Len(options.caveats) |-> CaveatString(options.caveats[i])]
    IN  AddFirstPartyCaveats(builder, custom \o required)

\* The macaroon createChallengeResponse builds for an invoice at time t and
\* signs with secretKey.
ChallengeMacaroon(options, secretKey, invoice, uuid1, uuid2, t) ==
    LET identifier == createMacaroonIdentifier(invoice.paymentHash, uuid1, uuid2)
        location == IF options.location # <<>> THEN options.location ELSE DEFAULT_LOCATION
        paymentHashBase64 == Base64Encode(HexDecode(invoice.paymentHash))
        expirationTime == t + DEFAULT_TOKEN_VALIDITY_SECONDS * 1000
        builder == MacaroonsBuilder(location, HexEncode(secretKey), Base64Encode(identifier))
        required == <<<<"payment_hash", " ", "=", " ">> \o paymentHashBase64,
                      <<"expiration", " ", "=", " ">> \o IntToDec(expirationTime)>>
        custom == [i \in 1..Len(options.caveats) |-> CaveatString(options.caveats[i])]
    IN  AddFirstPartyCaveats(builder, required \o custom)

\* Slip: the session records the key of the options, not the key used.
createChallengeResponse_SessionKeyFromOptions(options, invoice, uuid0, uuid1, uuid2, t) ==
    LET secretKey == IF options.secretKey # <<>> THEN options.secretKey ELSE uuid0
        serializedMacaroon == Serialize(ChallengeMacaroon(options, secretKey, invoice, uuid1, uuid2, t))
    IN  [session |-> [macaroon |-> serializedMacaroon, invoice |-> invoice,
                      secretKey |-> options.secretKey, createdAt |-> t],
         challenge |-> [invoice |-> invoice,
                        wwwAuthenticate |-> createWwwAuthenticateHeader(serializedMacaroon, invoice.paymentRequest),
                        macaroon |-> serializedMacaroon]]

\* createChallengeResponse(options) once createInvoice has returned: the
\* challenge handed back and the session written to the cache.  uuid0 is the
\* random key drawn when the options carry no secret key.
createChallengeResponse(options, invoice, uuid0, uuid1, uuid2, t) ==
    LET secretKey == IF options.secretKey # <<>> THEN options.secretKey ELSE uuid0
        serializedMacaroon == Serialize(ChallengeMacaroon(options, secretKey, invoice, uuid1, uuid2, t))
    IN  [session |-> [macaroon |-> serializedMacaroon, invoice |-> invoice,
                      secretKey |-> secretKey, createdAt |-> t],
         challenge |-> [invoice |-> invoice,
                        wwwAuthenticate |-> createWwwAuthenticateHeader(serializedMacaroon, invoice.paymentRequest),
                        macaroon |-> serializedMacaroon]]

DEFAULT_ROUTE == <<"/", "api", "/", "protected", "/", "default">>

(***************************************************************************)
(* The inputs of the model.                                                *)
(***************************************************************************)
Keys == {<<1, 2>>, <<3, 4>>}

Uuid(b) == [i \in 1..UuidBytes |-> b]

Uuids == {Uuid(17), Uuid(34)}

UuidPairs == {<<Uuid(17), Uuid(34)>>, <<Uuid(34), Uuid(17)>>}

\* Preimages the node draws for its invoices (bytes).
NodePreimages == {<<171, 205>>, Utf8Encode(<<"m", "o", "c", "k">>)}

\* Preimages a client presents (text): the hex form of the first node
\* preimage, the raw text of the second, and one that belongs to no invoice.
PresentedPreimages == {<<"a", "b", "c", "d">>, <<"m", "o", "c", "k">>, <<"0", "1">>}

ProtectedGlob == <<"/", "protected", "/", "*">>

\* createExpirationCaveat(expiresInSeconds) called at time t.
createExpirationCaveat(expiresInSeconds, t) ==
    CaveatObj(<<"expiration">>, NumberValue((t \div 1000) + expiresInSeconds), "expiration")

createPathCaveat(path) == CaveatObj(<<"path">>, StringValue(path), "path")

createIpCaveat(ips) == CaveatObj(<<"ip">>, ArrayValue(ips), "ip")

createMethodCaveat(methods) == CaveatObj(<<"method">>, ArrayValue(methods), "method")

\* A custom caveat whose validator throws.
createCustomCaveat(validator) == CaveatObj(<<"custom">>, ObjectValue, validator)

\* Options the host passes; 0 and <<>> stand for an option left out.
Options(secretKey, caveats) ==
    [secretKey |-> secretKey, caveats |-> caveats, location |-> <<>>, priceSats |-> 0,
     tokenValidityDuration |-> 0, matcher |-> <<ProtectedGlob>>]

ConfiguredValiditySeconds == 3600

OptionSets ==
    { Options(<<1, 2>>, <<>>),
      [Options(<<1, 2>>, <<createCustomCaveat("raise")>>)
         EXCEPT !.tokenValidityDuration = ConfiguredValiditySeconds],
      Options(<<1, 2>>, <<createPathCaveat(ProtectedGlob), createMethodCaveat(<<<<"GET">>>>)>>),
      Options(<<3, 4>>, <<CaveatObj(<<"expiration">>, NumberValue(5), "none")>>),
      Options(<<3, 4>>, <<CaveatObj(<<"payment_hash">>, StringValue(<<"x">>), "none"),
                         createPathCaveat(ProtectedGlob)>>) }

ProtectedPath == <<"/", "protected", "/", "resource">>

PublicPath == <<"/", "public", "/", "resource">>

Request(path, method, authorization) ==
    [path |-> path, method |-> method, authorization |-> authorization,
     forwardedFor |-> AbsentHeader]

MalformedMacaroon == <<"invalid-base64-macaroon">>

\* Macaroons signed under secretKey that carry no usable payment_hash caveat:
\* one without such a caveat, one whose payment_hash is followed by no "=".
MintedMacaroon(secretKey, caveat) ==
    Serialize(AddFirstPartyCaveat(
        MacaroonsBuilder(DEFAULT_LOCATION, HexEncode(secretKey), <<"i", "d">>), caveat))

NoPaymentHashMacaroon(secretKey) == MintedMacaroon(secretKey, <<"expiration", " ", "=", " ", "5">>)

UnparsablePaymentHashMacaroon(secretKey) == MintedMacaroon(secretKey, <<"payment_hash", ":", "x">>)

ForeignMacaroons(secretKey) ==
    {MalformedMacaroon, NoPaymentHashMacaroon(secretKey), UnparsablePaymentHashMacaroon(secretKey)}

TickSteps == {DEFAULT_TOKEN_VALIDITY_SECONDS * 1000, DEFAULT_TOKEN_VALIDITY_SECONDS * 1000 + 1}

(***************************************************************************)
(* State.  Operations are observed one at a time: the outcome of the       *)
(* operation that ran stays in `last` until its caller has taken it.       *)
(***************************************************************************)
VARIABLES
    now,        \* Date.now(), milliseconds
    ticks,      \* clock steps taken
    options,    \* the options the host configured handlers and middleware with
    invoices,   \* payment hashes of the invoices the node created
    settled,    \* payment hashes the node reports as settled
    cache,      \* l402Cache
    wallet,     \* serialized macaroons clients received in challenges
    nIssued,    \* challenges issued
    last        \* the operation that just ran: its inputs and its outcome

vars == <<now, ticks, options, invoices, settled, cache, wallet, nIssued, last>>

Idle == [op |-> "idle"]

Init ==
    /\ now = 0
    /\ ticks = 0
    /\ options \in OptionSets
    /\ invoices = {}
    /\ settled = {}
    /\ cache = EmptyCache
    /\ wallet = {}
    /\ nIssued = 0
    /\ last = Idle

Tick ==
    /\ last = Idle
    /\ ticks < MaxTicks
    /\ \E d \in TickSteps : now' = now + d
    /\ ticks' = ticks + 1
    /\ UNCHANGED <<options, invoices, settled, cache, wallet, nIssued, last>>

\* A wallet pays an invoice; the node settles it.
Pay ==
    /\ last = Idle
    /\ \E h \in invoices \ settled : settled' = settled \cup {h}
    /\ UNCHANGED <<now, ticks, options, invoices, cache, wallet, nIssued, last>>

\* await createChallengeResponse(options), called directly.
CreateChallengeResponse ==
    /\ last = Idle
    /\ nIssued < MaxIssued
    /\ \E p \in NodePreimages, k \in Uuids, u \in UuidPairs :
         LET invoice == createInvoice(IF options.priceSats # 0 THEN options.priceSats ELSE DEFAULT_PRICE_SATS, p)
             r == createChallengeResponse(options, invoice, k, u[1], u[2], now)
         IN  /\ cache' = setSession(cache, invoice.paymentHash, r.session, now)
             /\ invoices' = invoices \cup {invoice.paymentHash}
             /\ wallet' = wallet \cup {r.challenge.macaroon}
             /\ last' = [op |-> "createChallengeResponse", threw |-> FALSE, at |-> now,
                         challenge |-> r.challenge]
    /\ nIssued' = nIssued + 1
    /\ UNCHANGED <<now, ticks, options, settled>>

\* createInvoice rejects: createChallengeResponse throws before it built or
\* stored anything.
CreateChallengeResponseFails ==
    /\ last = Idle
    /\ last' = [op |-> "createChallengeResponse", threw |-> TRUE, at |-> now]
    /\ UNCHANGED <<now, ticks, options, invoices, settled, cache, wallet, nIssued>>

\* The arguments validateToken is called with: <<method, secretKey, macaroon,
\* preimage, caveats>>.  Issued tokens are combined with every method, key
\* and preimage and with the host's caveats or the default []; the other
\* macaroons come with one request and one preimage.
ValidateTokenInputs ==
    {<<method, secretKey, macaroon, preimage, caveats>> :
        method \in {<<"GET">>, <<"POST">>}, secretKey \in Keys, macaroon \in wallet,
        preimage \in PresentedPreimages, caveats \in {options.caveats, <<>>}}
      \cup {<<<<"GET">>, secretKey, macaroon, <<"0", "1">>, options.caveats>> :
               secretKey \in Keys, macaroon \in ForeignMacaroons(options.secretKey)}

\* Slip: a token is used up: the validation that succeeds drops the sessions.
ValidateToken_SingleUse ==
    /\ last = Idle
    /\ \E args \in ValidateTokenInputs :
         LET req == Request(ProtectedPath, args[1], NoHeader)
             token == Token(args[3], args[4])
             result == cache # EmptyCache /\ validateToken(req, token, args[2], args[5], now)
         IN  /\ last' = [op |-> "validateToken", req |-> req, token |-> token,
                         secretKey |-> args[2], caveats |-> args[5], at |-> now,
                         settled |-> settled,
                         threw |-> validateTokenCompletion(req, token, args[2], args[5], now) = "throw",
                         result |-> result]
             /\ cache' = IF result THEN EmptyCache ELSE cache
    /\ UNCHANGED <<now, ticks, options, invoices, settled, wallet, nIssued>>

\* await validateToken(req, token, secretKey, caveats), called directly.
ValidateToken ==
    /\ last = Idle
    /\ \E args \in ValidateTokenInputs :
         LET method == args[1]
             secretKey == args[2]
             macaroon == args[3]
             preimage == args[4]
             caveats == args[5]
             req == Request(ProtectedPath, method, NoHeader)
             token == Token(macaroon, preimage)
         IN  last' = [op |-> "validateToken", req |-> req, token |-> token,
                      secretKey |-> secretKey, caveats |-> caveats, at |-> now,
                      settled |-> settled,
                      threw |-> validateTokenCompletion(req, token, secretKey, caveats, now) = "throw",
                      result |-> validateToken(req, token, secretKey, caveats, now)]
    /\ UNCHANGED <<now, ticks, options, invoices, settled, cache, wallet, nIssued>>

\* A well-formed token for the invoice of the preimage 'mock', signed with a
\* key that is not the host's.
ForgedMacaroon ==
    Serialize(ChallengeMacaroon(options, <<9, 9>>,
                                createInvoice(DEFAULT_PRICE_SATS, Utf8Encode(<<"m", "o", "c", "k">>)),
                                Uuid(17), Uuid(34), 0))

AuthorizationHeaders ==
    {NoHeader, <<"Bearer", " ", "token">>, <<"L402", " ", "abc">>,
     <<"L402", " ">> \o ForgedMacaroon \o <<":", "m", "o", "c", "k">>}
      \cup {<<"L402", " ">> \o m \o <<":">> \o p :
              m \in wallet \cup {MalformedMacaroon}, p \in PresentedPreimages}

Requests ==
    {Request(ProtectedPath, <<"GET">>, a) : a \in AuthorizationHeaders}
      \cup {Request(ProtectedPath, <<"POST">>, a) : a \in AuthorizationHeaders}
      \cup {Request(PublicPath, <<"GET">>, a) : a \in AuthorizationHeaders}

\* One request through the middleware l402(options).
L402Request ==
    /\ last = Idle
    /\ \E req \in Requests :
         LET r == l402Middleware(options, req, now)
         IN  last' = [op |-> "l402", req |-> req, at |-> now, settled |-> settled,
                      matched |-> r.matched, token |-> r.token, validated |-> r.validated,
                      response |-> r.response]
    /\ UNCHANGED <<now, ticks, options, invoices, settled, cache, wallet, nIssued>>

\* The caller has taken the outcome.
Return ==
    /\ last # Idle
    /\ last' = Idle
    /\ UNCHANGED <<now, ticks, options, invoices, settled, cache, wallet, nIssued>>

Next ==
    \/ Tick
    \/ Pay
    \/ CreateChallengeResponse
    \/ CreateChallengeResponseFails
    \/ ValidateToken
    \/ L402Request
    \/ Return

Spec == Init /\ [][Next]_vars

(***************************************************************************)
(* Vocabulary of the properties: what an issued token says, read off its   *)
(* serialization, and what a validation was given.                         *)
(***************************************************************************)
RECURSIVE DecToInt(_)
DecToInt(s) == IF s = <<>> THEN 0 ELSE 10 * DecToInt(Take(s, Len(s) - 1)) + HexVal(s[Len(s)])

\* The caveat strings of an issued token.
IssuedCaveats(text) == Deserialize(text).caveats

\* The kind of a caveat string "<kind> = <value>" and its value text.
CaveatKind(caveatStr) == Head(caveatStr)

CaveatValue(caveatStr) == Drop(caveatStr, 4)

CountKind(caveats, kind) == Cardinality({i \in 1..Len(caveats) : CaveatKind(caveats[i]) = kind})

\* The payment hash (hex) and the deadline (ms) an issued token is bound to.
IssuedHash(text) == HexEncode(Base64Decode(CaveatValue(IssuedCaveats(text)[1])))

IssuedDeadline(text) == DecToInt(CaveatValue(IssuedCaveats(text)[2]))

\* The hash (hex) of the preimage a client presents.
PresentedHash(preimage) == HexEncode(Sha256(PreimageForHash(preimage)))

\* A validation of a token this system issued, under the key that signed it.
ValidatedIssued == last.op = "validateToken" /\ last.token.macaroon \in wallet

ValidatedUnderIssuerKey == ValidatedIssued /\ last.secretKey = options.secretKey

PreimageMatches == PresentedHash(last.token.preimage) = IssuedHash(last.token.macaroon)

Settled == IssuedHash(last.token.macaroon) \in last.settled

HostCaveatsPass == validateCaveats(last.req, last.caveats, last.at)

Issued == last.op = "createChallengeResponse" /\ ~last.threw

(***************************************************************************)
(* C1: a token is admitted only if the payment backend reports its payment *)
(* hash as settled: whenever verifyPayment is false for the hash of a      *)
(* token whose signature, preimage and caveats are valid, validateToken    *)
(* returns false.  The code never asks the backend.                        *)
(***************************************************************************)
C1_AdmittedOnlyIfSettled ==
    (ValidatedUnderIssuerKey /\ PreimageMatches /\ HostCaveatsPass /\ ~Settled) => ~last.result

(***************************************************************************)
(* C2: a request on a protected path without an Authorization header gets  *)
(* status 402 and a WWW-Authenticate header containing L402, macaroon="    *)
(* and invoice=".  The middleware's 402 carries no such header.            *)
(***************************************************************************)
C2_ChallengeHeaderOn402 ==
    (last.op = "l402" /\ last.req.path = ProtectedPath /\ last.req.authorization = NoHeader) =>
        /\ last.response.status = 402
        /\ "WWW-Authenticate" \in DOMAIN last.response.headers
        /\ Includes(last.response.headers["WWW-Authenticate"], <<"L402">>)
        /\ Includes(last.response.headers["WWW-Authenticate"], <<"macaroon=", "\"">>)
        /\ Includes(last.response.headers["WWW-Authenticate"], <<"invoice=", "\"">>)

(***************************************************************************)
(* C3: with signature, preimage and settlement valid, an issued token is   *)
(* accepted at every time up to the deadline of its expiration caveat and  *)
(* rejected at every later time.  The code accepts it after the deadline.  *)
(***************************************************************************)
C3_ExpirationEnforced ==
    (ValidatedUnderIssuerKey /\ PreimageMatches /\ Settled /\ HostCaveatsPass) =>
        (last.result <=> last.at <= IssuedDeadline(last.token.macaroon))

(***************************************************************************)
(* C4: when the SHA-256 hash of the presented preimage differs from the    *)
(* hash in the token's payment_hash caveat, validateToken returns false,   *)
(* for every validly signed token and whatever the backend reports.        *)
(***************************************************************************)
C4_PreimageMismatchRejected ==
    (ValidatedUnderIssuerKey /\ ~PreimageMatches) => ~last.result

C4_Witness ==
    ValidatedUnderIssuerKey /\ ~PreimageMatches /\ Settled /\ HostCaveatsPass /\ ~last.result

(***************************************************************************)
(* C5: a token issued under secret key K is rejected when it is validated  *)
(* with any other key, for every preimage and request.                     *)
(***************************************************************************)
C5_WrongKeyRejected ==
    (ValidatedIssued /\ last.secretKey # options.secretKey) => ~last.result

C5_Witness ==
    /\ ValidatedIssued /\ last.secretKey # options.secretKey
    /\ PreimageMatches /\ Settled /\ HostCaveatsPass /\ ~last.result

(***************************************************************************)
(* C6: round trip: the serialization of an issued token, validated right   *)
(* after issuance with the issuing key, the preimage of its payment hash   *)
(* and a request that satisfies the caveats, is valid.                     *)
(***************************************************************************)
C6_RoundTrip ==
    (/\ ValidatedUnderIssuerKey /\ PreimageMatches /\ HostCaveatsPass
     /\ IssuedDeadline(last.token.macaroon) = last.at + DEFAULT_TOKEN_VALIDITY_SECONDS * 1000)
        => last.result

C6_Witness ==
    /\ ValidatedUnderIssuerKey /\ PreimageMatches /\ HostCaveatsPass
    /\ IssuedDeadline(last.token.macaroon) = last.at + DEFAULT_TOKEN_VALIDITY_SECONDS * 1000
    /\ Len(IssuedCaveats(last.token.macaroon)) > 2
    /\ last.result

(***************************************************************************)
(* C7: a request whose path the matcher does not cover passes through      *)
(* untouched whatever its Authorization header: no token is extracted or   *)
(* validated, and the backend and the session store are left as they were. *)
(***************************************************************************)
C7_UnmatchedPassesThrough ==
    [][(last'.op = "l402" /\ ~RouteMatches(options.matcher, last'.req)) =>
          /\ last'.response = NextResponseNext
          /\ last'.token = Null /\ ~last'.validated
          /\ cache' = cache /\ invoices' = invoices /\ settled' = settled]_vars

C7_Witness ==
    /\ last.op = "l402" /\ last.req.path = PublicPath
    /\ ~extractTokenFromHeader(last.req).null
    /\ extractTokenFromHeader(last.req).macaroon \in wallet
    /\ last.response.next

(***************************************************************************)
(* C8: `L402 <text>` without a colon, a missing header and a non-L402      *)
(* scheme are all "no token": extractTokenFromHeader returns null and the  *)
(* request gets the very 402 a request without the header gets.            *)
(***************************************************************************)
NoTokenHeaders == {NoHeader, <<"Bearer", " ", "token">>, <<"L402", " ", "abc">>}

C8_MalformedHeaderIsNoToken ==
    (last.op = "l402" /\ last.req.path = ProtectedPath /\ last.req.authorization \in NoTokenHeaders) =>
        /\ last.token = Null
        /\ ~last.validated
        /\ last.response.status = 402
        /\ last.response =
             l402Middleware(options, [last.req EXCEPT !.authorization = NoHeader], last.at).response

C8_Witness ==
    /\ last.op = "l402" /\ last.req.path = ProtectedPath
    /\ last.req.authorization = <<"L402", " ", "abc">>
    /\ last.token = Null /\ last.response.status = 402

(***************************************************************************)
(* C9: every issued token carries exactly one payment_hash caveat and      *)
(* exactly one expiration caveat, whatever caveats the caller supplied.    *)
(* A caller caveat of one of these kinds is added on top of the required   *)
(* one.                                                                    *)
(***************************************************************************)
C9_ExactlyOneRequiredCaveatEach ==
    Issued =>
        /\ CountKind(IssuedCaveats(last.challenge.macaroon), "payment_hash") = 1
        /\ CountKind(IssuedCaveats(last.challenge.macaroon), "expiration") = 1

(***************************************************************************)
(* C10: the caveats of an issued token are, in this order, the payment_hash*)
(* caveat (base64 of the invoice's 32-byte hash), the expiration caveat,   *)
(* and then the caller's caveats in the order given.                       *)
(***************************************************************************)
C10_CaveatOrder ==
    Issued =>
        LET cs == IssuedCaveats(last.challenge.macaroon)
        IN  /\ Len(cs) = 2 + Len(options.caveats)
            /\ Take(cs[1], 4) = <<"payment_hash", " ", "=", " ">>
            /\ Len(Base64Decode(CaveatValue(cs[1]))) = DigestBytes
            /\ HexEncode(Base64Decode(CaveatValue(cs[1]))) = last.challenge.invoice.paymentHash
            /\ Take(cs[2], 4) = <<"expiration", " ", "=", " ">>
            /\ \A i \in 1..Len(options.caveats) :
                 cs[2 + i] = options.caveats[i].type \o <<" ", "=", " ">>
                               \o ValueToString(options.caveats[i].value)

C10_Witness ==
    /\ Issued
    /\ Len(options.caveats) = 2
    /\ Len(IssuedCaveats(last.challenge.macaroon)) = 4
    /\ CaveatKind(IssuedCaveats(last.challenge.macaroon)[1]) = "payment_hash"
    /\ CaveatKind(IssuedCaveats(last.challenge.macaroon)[4]) = "method"

\* The validity window (seconds) the host configured, the default when it
\* configured none.
ValidityWindowSeconds ==
    IF options.tokenValidityDuration # 0 THEN options.tokenValidityDuration
    ELSE DEFAULT_TOKEN_VALIDITY_SECONDS

(***************************************************************************)
(* C11: the expiration caveat of an issued token holds the deadline        *)
(* issuance time + validity window in epoch milliseconds, the window being *)
(* the host's tokenValidityDuration (seconds) and 86400 seconds only when  *)
(* none is configured.  The code always adds the default window.           *)
(***************************************************************************)
C11_DeadlineIsIssuancePlusWindow ==
    Issued =>
        IssuedDeadline(last.challenge.macaroon) = last.at + ValidityWindowSeconds * 1000

(***************************************************************************)
(* The exported functions called on their own: createMacaroonIdentifier,   *)
(* validateCaveats and the matcher createRouteMatcher returns.  PureSpec   *)
(* draws their arguments from the sets below; the issuing state stays as   *)
(* Init left it.                                                           *)
(***************************************************************************)
IsHex64(text) == Len(text) = 2 * DigestBytes /\ \A i \in 1..Len(text) : IsHexChar(text[i])

\* Payment hashes handed to createMacaroonIdentifier: the hashes of the node
\* preimages, and texts that are not 32 bytes of hex (2 bytes, none, 33).
PaymentHashInputs ==
    {HexEncode(Sha256(p)) : p \in NodePreimages}
      \cup {<<"a", "b", "c", "d">>, <<>>, HexEncode(Sha256(<<171, 205>>)) \o <<"0", "0">>}

ExactPattern == <<"/", "protected", "/", "resource">>

VersionPattern == <<"/", "v", "1", ".", "0">>

PurePaths ==
    { ProtectedPath,
      <<"/", "protected", "data">>,
      <<"/", "protected", "/", "resource", "/", "extra">>,
      <<"/", "v", "1", ".", "0">>,
      <<"/", "v", "1", "x", "0">> }

PureMethods == {<<"GET">>, <<"get">>, <<"POST">>}

ForwardedFor ==
    { AbsentHeader,
      HeaderValue(<<>>),
      HeaderValue(<<"10.0.0.1">>),
      HeaderValue(<<" ", "10.0.0.1", " ", ",", "10.0.0.2">>),
      HeaderValue(<<"10.0.0.2", ",", " ", "10.0.0.1">>),
      HeaderValue(<<",", "10.0.0.1">>) }

PureRequests ==
    {[Request(path, method, NoHeader) EXCEPT !.forwardedFor = xff] :
        path \in PurePaths, method \in PureMethods, xff \in ForwardedFor}

PureTimes == {0, 6000}

\* Caveats rebuilt from caveat strings, as validateToken rebuilds them.
RebuiltCaveats ==
    CaveatObjects(<< <<"expiration", " ", "=", " ", "5">>,
                     <<"path", " ", "=", " ", "/", "other">>,
                     <<"method", " ", "=", " ", "DELETE">> >>)

CaveatLists ==
    { <<>>,
      <<createPathCaveat(ProtectedGlob)>>,
      <<createPathCaveat(ExactPattern)>>,
      <<createPathCaveat(VersionPattern)>>,
      <<createMethodCaveat(<<<<"GET">>>>)>>,
      <<createMethodCaveat(<<<<"get">>>>)>>,
      <<createMethodCaveat(<<<<"GET">>, <<"POST">>>>)>>,
      <<createIpCaveat(<<<<"10.0.0.1">>>>)>>,
      <<createExpirationCaveat(5, 0)>>,
      <<createPathCaveat(ProtectedGlob), createMethodCaveat(<<<<"GET">>>>)>>,
      <<createMethodCaveat(<<<<"GET">>>>), createPathCaveat(ProtectedGlob)>>,
      RebuiltCaveats,
      <<RebuiltCaveats[1]>>,
      <<RebuiltCaveats[2], createMethodCaveat(<<<<"GET">>>>)>> }

PatternLists == {<<>>, <<ProtectedGlob>>, <<ExactPattern>>, <<VersionPattern>>, <<VersionPattern, ProtectedGlob>>}

\* createMacaroonIdentifier(paymentHash), with the two uuids it draws.
CreateMacaroonIdentifier ==
    /\ last = Idle
    /\ \E paymentHash \in PaymentHashInputs, u \in UuidPairs :
         last' = [op |-> "createMacaroonIdentifier", paymentHash |-> paymentHash, threw |-> FALSE,
                  identifier |-> createMacaroonIdentifier(paymentHash, u[1], u[2])]
    /\ UNCHANGED <<now, ticks, options, invoices, settled, cache, wallet, nIssued>>

\* validateCaveats(req, caveats) at time t.
ValidateCaveats ==
    /\ last = Idle
    /\ \E req \in PureRequests, caveats \in CaveatLists, t \in PureTimes :
         last' = [op |-> "validateCaveats", req |-> req, caveats |-> caveats, at |-> t,
                  result |-> validateCaveats(req, caveats, t)]
    /\ UNCHANGED <<now, ticks, options, invoices, settled, cache, wallet, nIssued>>

\* createRouteMatcher(patterns)(req)
MatchRoute ==
    /\ last = Idle
    /\ \E patterns \in PatternLists, path \in PurePaths :
         LET req == Request(path, <<"GET">>, NoHeader)
         IN  last' = [op |-> "createRouteMatcher", patterns |-> patterns, req |-> req,
                      result |-> RouteMatches(patterns, req)]
    /\ UNCHANGED <<now, ticks, options, invoices, settled, cache, wallet, nIssued>>

\* Tokens a client can present.  "issued": a token as createChallengeResponse
\* built it under the key <<1, 2>>, with or without caveats of the host.  The
\* others are made from the issued token `base` without the key: a caveat
\* removed, a caveat's bytes altered, the caveats reordered (the signature is
\* the one the holder has), and caveats appended by chaining
\* (MacaroonsBuilder.modify(m).add_first_party_caveat).  "nohash" is signed
\* under the key but carries no payment_hash caveat.
HolderTokens ==
    LET Issue(p, cs, t) ==
            ChallengeMacaroon(Options(<<1, 2>>, cs), <<1, 2>>, createInvoice(DEFAULT_PRICE_SATS, p),
                              Uuid(17), Uuid(34), t)
        HashCaveat(p) ==
            <<"payment_hash", " ", "=", " ">> \o Base64Encode(Sha256(p))
        Variant(how, m, base) == [how |-> how, text |-> Serialize(m), base |-> Serialize(base)]
        Variants(p, q) ==
            LET b == Issue(p, <<>>, 0)
            IN  { Variant("issued", b, b),
                  Variant("issued", Issue(p, <<createPathCaveat(<<"/", "other">>),
                                               createMethodCaveat(<<<<"DELETE">>>>)>>, 0), b),
                  Variant("issued", Issue(p, <<createMethodCaveat(<<<<"GET">>>>)>>, 6000), b),
                  Variant("removed", [b EXCEPT !.caveats = <<b.caveats[1]>>], b),
                  Variant("removed", [b EXCEPT !.caveats = <<b.caveats[2]>>], b),
                  Variant("altered", [b EXCEPT !.caveats[2] = <<"expiration", " ", "=", " ", "9", "9">>], b),
                  Variant("altered", [b EXCEPT !.caveats[1] = HashCaveat(q)], b),
                  Variant("reordered", [b EXCEPT !.caveats = <<b.caveats[2], b.caveats[1]>>], b),
                  Variant("appended", AddFirstPartyCaveat(b, <<"path", " ", "=", " ", "/", "other">>), b),
                  Variant("appended", AddFirstPartyCaveat(b, HashCaveat(q)), b),
                  Variant("appended",
                          AddFirstPartyCaveats(b, <<<<"method", " ", "=", " ", "DELETE">>, HashCaveat(q)>>), b) }
        odd == Issue(Utf8Encode(<<"a", "b", "c">>), <<>>, 0)
        nohash == Deserialize(NoPaymentHashMacaroon(<<1, 2>>))
    IN  Variants(<<171, 205>>, Utf8Encode(<<"m", "o", "c", "k">>))
          \cup Variants(Utf8Encode(<<"m", "o", "c", "k">>), <<171, 205>>)
          \cup {Variant("issued", odd, odd), Variant("nohash", nohash, nohash)}

\* Preimages (text) a client presents: hex in lower and upper case, hex of
\* odd length, text that is not hex, the empty text.
HolderPreimages ==
    { <<"a", "b", "c", "d">>, <<"A", "B", "C", "D">>, <<"a", "b", "c">>, <<"m", "o", "c", "k">>,
      <<"0", "1">>, <<"0", "z">>, <<>> }

\* await validateToken(req, token, secretKey, caveats) on a presented token,
\* at the time of issuance or after the token's deadline.
ValidatePresented ==
    /\ last = Idle
    /\ \E v \in HolderTokens, preimage \in HolderPreimages, method \in {<<"GET">>, <<"POST">>},
          caveats \in {<<>>, <<createPathCaveat(ProtectedGlob), createMethodCaveat(<<<<"GET">>>>)>>},
          t \in {0, DEFAULT_TOKEN_VALIDITY_SECONDS * 1000 + 1} :
         LET req == Request(ProtectedPath, method, NoHeader)
             token == Token(v.text, preimage)
         IN  last' = [op |-> "validateToken", how |-> v.how, base |-> v.base, req |-> req,
                      token |-> token, secretKey |-> <<1, 2>>, caveats |-> caveats, at |-> t,
                      threw |-> validateTokenCompletion(req, token, <<1, 2>>, caveats, t) = "throw",
                      result |-> validateToken(req, token, <<1, 2>>, caveats, t)]
    /\ UNCHANGED <<now, ticks, options, invoices, settled, cache, wallet, nIssued>>

\* extractTokenFromHeader(req) for the Authorization headers made of a scheme
\* and up to four tokens of credential, and for a request without the header.
ExtractTokenFromHeader ==
    /\ last = Idle
    /\ \E scheme \in {<<"L402", " ">>, <<"L402">>, <<"l402", " ">>, <<"Bearer", " ">>, <<>>},
          n \in 0..4 :
         \E credential \in [1..n -> {"m", "p", ":", " "}] :
            LET req == Request(ProtectedPath, <<"GET">>, scheme \o credential)
            IN  last' = [op |-> "extractTokenFromHeader", header |-> req.authorization,
                         token |-> extractTokenFromHeader(req)]
    /\ UNCHANGED <<now, ticks, options, invoices, settled, cache, wallet, nIssued>>

\* createExpirationCaveat(w) called at time t, and validateCaveats(req,
\* [caveat]) called d milliseconds later.
ExpirationCaveat ==
    /\ last = Idle
    /\ \E w \in {5, 10}, t \in {0, 500, 999, 1000},
          d \in {0, 1, 4500, 5000, 5001, 5499, 5500, 6000, 10000, 10999, 11000} :
         LET caveat == createExpirationCaveat(w, t)
         IN  last' = [op |-> "expirationCaveat", expiresInSeconds |-> w, createdAt |-> t, at |-> t + d,
                      caveat |-> caveat,
                      result |-> validateCaveats(Request(ProtectedPath, <<"GET">>, NoHeader),
                                                 <<caveat>>, t + d)]
    /\ UNCHANGED <<now, ticks, options, invoices, settled, cache, wallet, nIssued>>

\* A caveat of options.caveats written into the token by createChallengeResponse
\* and rebuilt from the caveat packet by validateToken.
CaveatRoundTrip ==
    /\ last = Idle
    /\ \E caveat \in { createPathCaveat(ProtectedGlob),
                       createPathCaveat(<<"/", "a", " ", "=", " ", "b">>),
                       createPathCaveat(<<" ", "/", "a">>),
                       createExpirationCaveat(5, 0),
                       createMethodCaveat(<<<<"GET">>>>),
                       createMethodCaveat(<<<<"GET">>, <<"POST">>>>),
                       createIpCaveat(<<<<"10.0.0.1">>, <<"10.0.0.2">>>>),
                       createCustomCaveat("none") } :
         last' = [op |-> "caveatRoundTrip", caveat |-> caveat, text |-> CaveatString(caveat),
                  rebuilt |-> CaveatObjects(<<CaveatString(caveat)>>)]
    /\ UNCHANGED <<now, ticks, options, invoices, settled, cache, wallet, nIssued>>

InitPure ==
    /\ now = 0
    /\ ticks = 0
    /\ options = Options(<<1, 2>>, <<>>)
    /\ invoices = {}
    /\ settled = {}
    /\ cache = EmptyCache
    /\ wallet = {}
    /\ nIssued = 0
    /\ last = Idle

NextPure ==
    \/ CreateMacaroonIdentifier
    \/ ValidateCaveats
    \/ MatchRoute
    \/ CaveatRoundTrip
    \/ ValidatePresented
    \/ ExtractTokenFromHeader
    \/ ExpirationCaveat
    \/ Return

PureSpec == InitPure /\ [][NextPure]_vars

(***************************************************************************)
(* C12: for every valid payment hash h (32 bytes as 64 hex characters),    *)
(* createMacaroonIdentifier(h) is exactly 66 bytes long, its first two     *)
(* bytes are the version 0 in big-endian, and its last 32 bytes (offsets   *)
(* 34..65) are h.                                                          *)
(***************************************************************************)
C12_IdentifierLayout ==
    (last.op = "createMacaroonIdentifier" /\ IsHex64(last.paymentHash)) =>
        /\ ~last.threw
        /\ Len(last.identifier) = 2 + 32 + DigestBytes
        /\ last.identifier[1] = 0 /\ last.identifier[2] = 0
        /\ HexEncode(SubSeq(last.identifier, 35, 66)) = last.paymentHash

C12_Witness ==
    /\ last.op = "createMacaroonIdentifier" /\ IsHex64(last.paymentHash)
    /\ Len(last.identifier) = 66
    /\ SubSeq(last.identifier, 3, 34) = Uuid(17) \o Uuid(34)

(***************************************************************************)
(* C13: identifier encoding fails (an error, no identifier) whenever the   *)
(* payment hash supplied is not exactly 32 bytes.  The code decodes what   *)
(* it is given and returns an identifier of another length.                *)
(***************************************************************************)
C13_WrongLengthHashFails ==
    (last.op = "createMacaroonIdentifier" /\ ~IsHex64(last.paymentHash)) => last.threw

(***************************************************************************)
(* C14: validateToken fails closed.  A malformed serialization, a wrong    *)
(* key, a missing or unparsable payment_hash caveat and a caveat validator *)
(* that raises all end in the result false, and no call of validateToken   *)
(* lets an exception reach its caller; through the middleware a malformed  *)
(* token gets the 402 response.                                            *)
(***************************************************************************)
RaisingCaveat(caveats) == \E i \in 1..Len(caveats) : caveats[i].validator = "raise"

C14_FailsClosed ==
    /\ last.op = "validateToken" =>
         /\ ~last.threw
         /\ ~DeserializeOk(last.token.macaroon) => ~last.result
         /\ (last.token.macaroon \in wallet /\ last.secretKey # options.secretKey) => ~last.result
         /\ last.token.macaroon \in {NoPaymentHashMacaroon(options.secretKey),
                                     UnparsablePaymentHashMacaroon(options.secretKey)} => ~last.result
         /\ RaisingCaveat(last.caveats) => ~last.result
    /\ (last.op = "l402" /\ last.matched /\ ~last.token.null /\ ~DeserializeOk(last.token.macaroon)) =>
         last.response.status = 402

\* A validly signed, paid token with the right preimage whose validation
\* reaches a raising validator and ends in false.
C14_Witness ==
    /\ ValidatedUnderIssuerKey /\ PreimageMatches /\ Settled
    /\ RaisingCaveat(last.caveats)
    /\ validateTokenTry(last.req, last.token, last.secretKey, last.caveats, last.at) = "throw"
    /\ ~last.result /\ ~last.threw

(***************************************************************************)
(* C16: a token to which the caveats path = /protected/* and method = GET  *)
(* are attached passes on a GET request to a path under /protected/ and    *)
(* fails on a POST request to the same path, signature, preimage and       *)
(* settlement being valid in both cases.  The caveats rebuilt from the     *)
(* token carry no validator, so the token alone passes on POST as well.    *)
(***************************************************************************)
CarriesPathAndGet(text) ==
    /\ Len(IssuedCaveats(text)) = 4
    /\ IssuedCaveats(text)[3] = <<"path", " ", "=", " ">> \o ProtectedGlob
    /\ IssuedCaveats(text)[4] = <<"method", " ", "=", " ", "GET">>

C16_PathAndMethodCaveatsEnforced ==
    (/\ ValidatedUnderIssuerKey /\ PreimageMatches /\ Settled
     /\ CarriesPathAndGet(last.token.macaroon)
     /\ last.req.path = ProtectedPath /\ last.req.method \in {<<"GET">>, <<"POST">>})
        => (last.result <=> last.req.method = <<"GET">>)

(***************************************************************************)
(* Vocabulary of the properties about direct calls.                        *)
(***************************************************************************)
Reverse(s) == [i \in 1..Len(s) |-> s[Len(s) + 1 - i]]

\* A call validateCaveats(req, <<caveat>>) with one caveat whose validator
\* the named constructor bound.
SingleCaveatCall(validator) ==
    /\ last.op = "validateCaveats"
    /\ Len(last.caveats) = 1
    /\ last.caveats[1].validator = validator

(***************************************************************************)
(* C15: validateCaveats(req, caveats) returns true if and only if every    *)
(* caveat of the list evaluates true for req: true for the empty list,     *)
(* false as soon as one caveat evaluates false, and the same for the list  *)
(* in the opposite order.                                                  *)
(***************************************************************************)
C15_AllCaveatsMustPass ==
    last.op = "validateCaveats" =>
        /\ last.result <=>
             \A i \in 1..Len(last.caveats) : validateCaveat(last.req, last.caveats[i], last.at)
        /\ last.caveats = <<>> => last.result
        /\ last.result = validateCaveats(last.req, Reverse(last.caveats), last.at)

C15_Witness ==
    /\ last.op = "validateCaveats"
    /\ last.caveats = <<createPathCaveat(ProtectedGlob), createMethodCaveat(<<<<"GET">>>>)>>
    /\ last.req.path = ProtectedPath /\ last.req.method = <<"POST">>
    /\ validateCaveat(last.req, last.caveats[1], last.at)
    /\ ~last.result

(***************************************************************************)
(* C17: a caveat with no evaluator bound, such as one rebuilt from its     *)
(* serialized `kind = value` string, evaluates true for every request,     *)
(* whatever its kind and value.                                            *)
(***************************************************************************)
C17_NoEvaluatorPasses ==
    last.op = "validateCaveats" =>
        /\ \A i \in 1..Len(last.caveats) :
             last.caveats[i].validator = "none" => validateCaveat(last.req, last.caveats[i], last.at)
        /\ (\A i \in 1..Len(last.caveats) : last.caveats[i].validator = "none") => last.result

\* Rebuilt caveats whose kinds and values the request does not meet: an
\* expiration of 5 s at 6 s, another path, another method.
C17_Witness ==
    /\ last.op = "validateCaveats"
    /\ last.caveats = RebuiltCaveats /\ Len(last.caveats) = 3
    /\ last.caveats[1].type = <<"expiration">> /\ last.at = 6000
    /\ last.req.path = ProtectedPath /\ last.req.method = <<"POST">>
    /\ last.result

(***************************************************************************)
(* C18: the method caveat evaluates true exactly when the request method   *)
(* is in the allowed set compared case-insensitively: the letter case of   *)
(* neither the request method nor the allowed names changes the result.    *)
(* The code folds the case of the request method only.                     *)
(***************************************************************************)
MethodAllowedIgnoringCase(req, allowed) ==
    \E i \in 1..Len(allowed) : ToUpperCase(allowed[i]) = ToUpperCase(req.method)

C18_MethodCaseInsensitive ==
    SingleCaveatCall("method") =>
        (last.result <=> MethodAllowedIgnoringCase(last.req, last.caveats[1].value.items))

(***************************************************************************)
(* C19: the ip caveat evaluates true exactly when the first comma-         *)
(* separated entry of the x-forwarded-for header, trimmed, is in the       *)
(* allowed set; it is false when the header is absent or empty, and later  *)
(* entries of the header never matter.                                     *)
(***************************************************************************)
C19_IpIsFirstForwardedEntry ==
    SingleCaveatCall("ip") =>
        (last.result <=>
            /\ last.req.forwardedFor.present
            /\ Trim(FirstEntry(last.req.forwardedFor.text)) # <<>>
            /\ Trim(FirstEntry(last.req.forwardedFor.text)) \in Range(last.caveats[1].value.items))

\* The allowed address is a later entry of the header; the first is not allowed.
C19_Witness ==
    /\ SingleCaveatCall("ip")
    /\ last.caveats[1].value.items = <<<<"10.0.0.1">>>>
    /\ last.req.forwardedFor = HeaderValue(<<"10.0.0.2", ",", " ", "10.0.0.1">>)
    /\ ~last.result

(***************************************************************************)
(* C20: glob matching of paths (path caveat and createRouteMatcher) is     *)
(* anchored over the whole path with `*` as the only wildcard: a pattern   *)
(* without `*` matches only the path identical to it, and a pattern P/*    *)
(* matches exactly the paths that begin with P/.  The code leaves the      *)
(* other regular-expression metacharacters of the pattern in force.        *)
(***************************************************************************)
GlobSays(pattern, path) ==
    IF "*" \notin Range(pattern) THEN path = pattern
    ELSE /\ Len(path) >= Len(pattern) - 1
         /\ Take(path, Len(pattern) - 1) = Take(pattern, Len(pattern) - 1)

C20_GlobAnchoredStarOnly ==
    /\ SingleCaveatCall("path") =>
         (last.result <=> GlobSays(last.caveats[1].value.text, last.req.path))
    /\ last.op = "createRouteMatcher" =>
         (last.result <=> \E i \in 1..Len(last.patterns) : GlobSays(last.patterns[i], last.req.path))

(***************************************************************************)
(* The challenge endpoint (createChallengeHandler) and the reads of the    *)
(* cache.  NodeCache keeps with every entry the time it stops being        *)
(* served, Date.now() + stdTTL * 1000 at the time of the set; get serves   *)
(* an entry unless that time is less than Date.now(), and deletes the      *)
(* entry it refuses; the checkperiod timer deletes all such entries.       *)
(***************************************************************************)
CacheDel(c, keys) == [k \in DOMAIN c \ keys |-> c[k]]

\* Slip: an entry is served until the timer has removed it.
CacheGet_NoExpiry(c, key, t) ==
    IF key \notin DOMAIN c THEN [found |-> FALSE, cache |-> c]
    ELSE [found |-> TRUE, value |-> c[key].v, cache |-> c]

\* cache.get(key) at time t: what it returns and the cache it leaves.
CacheGet(c, key, t) ==
    IF key \notin DOMAIN c THEN [found |-> FALSE, cache |-> c]
    ELSE IF c[key].t < t THEN [found |-> FALSE, cache |-> CacheDel(c, {key})]
    ELSE [found |-> TRUE, value |-> c[key].v, cache |-> c]

getSession(c, paymentHash, t) == CacheGet(c, paymentHash, t)

getCachedChallenge(c, routeKey, t) == CacheGet(c, <<"challenge:">> \o routeKey, t)

\* The checkperiod timer at time t.
CheckData(c, t) == CacheDel(c, {k \in DOMAIN c : c[k].t < t})

\* What createInvoice settles to: a rejection, or an invoice.
Rejected == [ok |-> FALSE]

Created(invoice) == [ok |-> TRUE, invoice |-> invoice]

\* Slip: the failure is answered like a challenge.
InternalServerError_Status402 ==
    [status |-> 402, next |-> FALSE,
     headers |-> [n \in {"Content-Type"} |-> <<"text/plain">>],
     body |-> <<"Internal Server Error">>]

\* The catch branch of the handler.
InternalServerError ==
    [status |-> 500, next |-> FALSE,
     headers |-> [n \in {"Content-Type"} |-> <<"text/plain">>],
     body |-> <<"Internal Server Error">>]

\* The try branch of the handler once createInvoice has returned an invoice:
\* createChallengeResponse stores the session, the handler stores the route's
\* challenge and answers 402.  route is the `route` query parameter, <<>>
\* when the request has none.
ChallengeIssued(opts, c, route, invoice, uuid0, uuid1, uuid2, t) ==
    LET r == createChallengeResponse(opts, invoice, uuid0, uuid1, uuid2, t)
        targetRoute == IF route # <<>> THEN route ELSE DEFAULT_ROUTE
        cachedChallenge == [wwwAuthenticate |-> r.challenge.wwwAuthenticate,
                            paymentHash |-> r.challenge.invoice.paymentHash,
                            createdAt |-> t]
    IN  [response |-> [status |-> 402, next |-> FALSE,
                       headers |-> [n \in {"WWW-Authenticate", "Content-Type"} |->
                                      IF n = "WWW-Authenticate" THEN r.challenge.wwwAuthenticate
                                      ELSE <<"text/plain">>],
                       body |-> <<"Payment Required">>],
         cache |-> setCachedChallenge(setSession(c, invoice.paymentHash, r.session, t),
                                      targetRoute, cachedChallenge, t),
         challenge |-> r.challenge]

\* Slip: the route's entry is written before the invoice is there.
createChallengeHandler_CachesBeforeInvoice(opts, c, route, created, uuid0, uuid1, uuid2, t) ==
    IF ~created.ok
    THEN [response |-> InternalServerError,
          cache |-> setCachedChallenge(c, route, [wwwAuthenticate |-> <<>>, paymentHash |-> <<>>,
                                                  createdAt |-> t], t)]
    ELSE ChallengeIssued(opts, c, route, created.invoice, uuid0, uuid1, uuid2, t)

\* The handler createChallengeHandler(options) returns, run on one request at
\* time t against the cache c; created is what createInvoice settled to.
createChallengeHandler(opts, c, route, created, uuid0, uuid1, uuid2, t) ==
    IF ~created.ok THEN [response |-> InternalServerError, cache |-> c]
    ELSE ChallengeIssued(opts, c, route, created.invoice, uuid0, uuid1, uuid2, t)

\* Hosts with and without a secret key in the options.
HandlerOptionSets == {Options(<<1, 2>>, <<>>), Options(<<>>, <<>>)}

RouteParams == {<<>>, ProtectedPath}

CacheTickSteps == {CACHE_TTL_SECONDS * 1000, CACHE_TTL_SECONDS * 1000 + 1}

InitHandler ==
    /\ now = 0
    /\ ticks = 0
    /\ options \in HandlerOptionSets
    /\ invoices = {}
    /\ settled = {}
    /\ cache = EmptyCache
    /\ wallet = {}
    /\ nIssued = 0
    /\ last = Idle

CacheTick ==
    /\ last = Idle
    /\ ticks < MaxTicks
    /\ \E d \in CacheTickSteps : now' = now + d
    /\ ticks' = ticks + 1
    /\ UNCHANGED <<options, invoices, settled, cache, wallet, nIssued, last>>

\* One request to the challenge endpoint.
ChallengeHandler ==
    /\ last = Idle
    /\ nIssued < MaxChallenges
    /\ \E route \in RouteParams, k \in {Uuid(51)},
          created \in {Rejected} \cup
            {Created(createInvoice(IF options.priceSats # 0 THEN options.priceSats
                                   ELSE DEFAULT_PRICE_SATS, p)) : p \in NodePreimages} :
         LET h == createChallengeHandler(options, cache, route, created, k, Uuid(17), Uuid(34), now)
         IN  /\ cache' = h.cache
             /\ invoices' = IF created.ok THEN invoices \cup {created.invoice.paymentHash} ELSE invoices
             /\ wallet' = IF created.ok THEN wallet \cup {h.challenge.macaroon} ELSE wallet
             /\ last' = IF created.ok
                        THEN [op |-> "challengeHandler", route |-> route, rejected |-> FALSE,
                              invoiceCalls |-> 1, at |-> now, response |-> h.response,
                              challenge |-> h.challenge]
                        ELSE [op |-> "challengeHandler", route |-> route, rejected |-> TRUE,
                              invoiceCalls |-> 1, at |-> now, response |-> h.response]
    /\ nIssued' = nIssued + 1
    /\ UNCHANGED <<now, ticks, options, settled>>

\* l402Cache.getSession(paymentHash)
GetSession ==
    /\ last = Idle
    /\ \E paymentHash \in invoices :
         LET g == getSession(cache, paymentHash, now)
         IN  /\ cache' = g.cache
             /\ last' = [op |-> "getSession", key |-> paymentHash, at |-> now, found |-> g.found,
                         value |-> IF g.found THEN <<g.value>> ELSE <<>>]
    /\ UNCHANGED <<now, ticks, options, invoices, settled, wallet, nIssued>>

\* l402Cache.getCachedChallenge(routeKey)
GetCachedChallenge ==
    /\ last = Idle
    /\ \E routeKey \in {DEFAULT_ROUTE, ProtectedPath} :
         LET g == getCachedChallenge(cache, routeKey, now)
         IN  /\ cache' = g.cache
             /\ last' = [op |-> "getCachedChallenge", key |-> <<"challenge:">> \o routeKey, at |-> now,
                         found |-> g.found, value |-> IF g.found THEN <<g.value>> ELSE <<>>]
    /\ UNCHANGED <<now, ticks, options, invoices, settled, wallet, nIssued>>

\* The checkperiod timer fires.
CheckPeriod ==
    /\ last = Idle
    /\ cache' = CheckData(cache, now)
    /\ last' = [op |-> "checkData", at |-> now]
    /\ UNCHANGED <<now, ticks, options, invoices, settled, wallet, nIssued>>

NextHandler ==
    \/ CacheTick
    \/ ChallengeHandler
    \/ CreateChallengeResponseFails
    \/ GetSession
    \/ GetCachedChallenge
    \/ CheckPeriod
    \/ Return

HandlerSpec == InitHandler /\ [][NextHandler]_vars

(***************************************************************************)
(* Vocabulary of the properties about the challenge endpoint.              *)
(***************************************************************************)
HandlerIssued == last.op = "challengeHandler" /\ ~last.rejected

HandlerIssues == last'.op = "challengeHandler" /\ ~last'.rejected

TargetRoute(route) == IF route # <<>> THEN route ELSE DEFAULT_ROUTE

ReadStep == last'.op \in {"getSession", "getCachedChallenge"}

(***************************************************************************)
(* C21: the challenge endpoint, called for a route whose cached challenge  *)
(* is still within TTL, returns that cached challenge (same token and      *)
(* invoice) and creates no invoice; it issues a new challenge only when    *)
(* the route has no unexpired cached challenge.  The handler never reads   *)
(* the cache and issues a new challenge on every request.                  *)
(***************************************************************************)
C21_CachedChallengeReused ==
    [][(/\ last'.op = "challengeHandler"
        /\ getCachedChallenge(cache, TargetRoute(last'.route), now).found) =>
          /\ last'.response.status = 402
          /\ "WWW-Authenticate" \in DOMAIN last'.response.headers
          /\ last'.response.headers["WWW-Authenticate"] =
               getCachedChallenge(cache, TargetRoute(last'.route), now).value.wwwAuthenticate
          /\ invoices' = invoices
          /\ wallet' = wallet]_vars

(***************************************************************************)
(* C22: every challenge the handler answers with has status 402 and the    *)
(* header WWW-Authenticate: L402 macaroon="<token>", invoice="<payment     *)
(* request>", macaroon first, token and payment request being those of the *)
(* challenge just issued: the token's payment hash is the invoice's.       *)
(***************************************************************************)
C22_ChallengeHeaderForm ==
    HandlerIssued =>
        /\ last.response.status = 402
        /\ last.response.headers["WWW-Authenticate"] =
             <<"L402", " ", "macaroon=", "\"">> \o last.challenge.macaroon
               \o <<"\"", ",", " ", "invoice=", "\"">> \o last.challenge.invoice.paymentRequest
               \o <<"\"">>
        /\ IssuedHash(last.challenge.macaroon) = last.challenge.invoice.paymentHash
        /\ last.challenge.invoice.paymentHash \in DOMAIN cache
        /\ cache[last.challenge.invoice.paymentHash].v.macaroon = last.challenge.macaroon
        /\ cache[last.challenge.invoice.paymentHash].v.invoice = last.challenge.invoice

C22_Witness ==
    /\ HandlerIssued /\ last.route = ProtectedPath
    /\ last.response.status = 402
    /\ Take(last.response.headers["WWW-Authenticate"], 4) = <<"L402", " ", "macaroon=", "\"">>

(***************************************************************************)
(* C23: when createInvoice fails while a challenge is being issued, the    *)
(* request ends in a failure: a 5xx response from the challenge handler,   *)
(* an error passed on by createChallengeResponse, never a 402 challenge    *)
(* and never a pass-through.                                               *)
(***************************************************************************)
C23_InvoiceFailureIsFailure ==
    /\ (last.op = "challengeHandler" /\ last.rejected) =>
         /\ last.response.status \in 500..599
         /\ ~last.response.next
         /\ "WWW-Authenticate" \notin DOMAIN last.response.headers
    /\ (last.op = "createChallengeResponse" /\ last.threw) => "challenge" \notin DOMAIN last

C23_Witness ==
    /\ last.op = "challengeHandler" /\ last.rejected
    /\ last.response.status = 500
    /\ "challenge" \notin DOMAIN last

(***************************************************************************)
(* C24: without a signing secret nothing is set up: no handler runs        *)
(* without a secret key supplied by the host and no token is signed with a *)
(* key other than the configured one.  The challenge issuer falls back to  *)
(* a key it draws itself.                                                  *)
(***************************************************************************)
C24_SignedWithConfiguredKeyOnly ==
    HandlerIssued =>
        /\ options.secretKey # <<>>
        /\ VerifierIsValid(Deserialize(last.challenge.macaroon), HexEncode(options.secretKey),
                           Range(IssuedCaveats(last.challenge.macaroon)))

(***************************************************************************)
(* C25, as stated: an entry stored at time t is returned by a read at any  *)
(* time before t + 3600 s and by no read at or after t + 3600 s.  At       *)
(* exactly t + 3600 s the entry is still returned.                         *)
(***************************************************************************)
C25_GoneAtTtl ==
    [][(ReadStep /\ last'.key \in DOMAIN cache) =>
          (last'.found <=> now < cache[last'.key].v.createdAt + CACHE_TTL_SECONDS * 1000)]_vars

(***************************************************************************)
(* C25, amended: an entry stored at time t is returned, unchanged, by a    *)
(* read at any time up to and including t + 3600 s and by no read after    *)
(* t + 3600 s, whether or not the periodic sweep has removed it: the sweep *)
(* removes only entries older than that, and an entry that is not there is *)
(* not returned.                                                           *)
(***************************************************************************)
C25_ServedThroughTtl ==
    [][/\ (ReadStep /\ last'.key \in DOMAIN cache) =>
            /\ last'.found <=> now <= cache[last'.key].v.createdAt + CACHE_TTL_SECONDS * 1000
            /\ last'.found => last'.value = <<cache[last'.key].v>>
       /\ (ReadStep /\ last'.key \notin DOMAIN cache) => ~last'.found
       /\ last'.op = "checkData" =>
            \A k \in DOMAIN cache \ DOMAIN cache' :
                cache[k].v.createdAt + CACHE_TTL_SECONDS * 1000 < now]_vars

\* A session read exactly 3600 s after it was stored.
C25_Witness ==
    /\ last.op = "getSession" /\ last.found
    /\ last.at = last.value[1].createdAt + CACHE_TTL_SECONDS * 1000

(***************************************************************************)
(* C26: setSession(h, s) makes getSession(h) return s, replacing an        *)
(* earlier entry for h, and leaves the entries of all other payment hashes *)
(* and routes as they were; so getSession(h) is the session written last   *)
(* for h.                                                                  *)
(***************************************************************************)
C26_SetSessionOverwritesOnlyItsKey ==
    [][HandlerIssues =>
          LET h == last'.challenge.invoice.paymentHash
              g == getSession(cache', h, now')
          IN  /\ g.found
              /\ g.value.macaroon = last'.challenge.macaroon
              /\ g.value.invoice = last'.challenge.invoice
              /\ g.value.createdAt = now
              /\ \A k \in DOMAIN cache \ {h, <<"challenge:">> \o TargetRoute(last'.route)} :
                   k \in DOMAIN cache' /\ cache'[k] = cache[k]]_vars

\* The session of a payment hash that had a session before: the wallet holds
\* the token of the earlier session.
C26_Witness ==
    /\ HandlerIssued
    /\ \E m \in wallet :
         /\ m # last.challenge.macaroon
         /\ IssuedHash(m) = last.challenge.invoice.paymentHash
    /\ cache[last.challenge.invoice.paymentHash].v.macaroon = last.challenge.macaroon

(***************************************************************************)
(* C30: when createInvoice fails, issuing a challenge changes nothing: the *)
(* session store holds the same sessions and route challenges after the    *)
(* failed request as before, and createInvoice was called once.            *)
(***************************************************************************)
C30_FailedInvoiceMutatesNothing ==
    [][/\ (last'.op = "challengeHandler" /\ last'.rejected) =>
            /\ cache' = cache /\ invoices' = invoices /\ wallet' = wallet
            /\ last'.invoiceCalls = 1
       /\ (last'.op = "createChallengeResponse" /\ last'.threw) =>
            cache' = cache /\ invoices' = invoices /\ wallet' = wallet]_vars

\* A failed request to the endpoint while the store holds a session and a
\* route challenge.
C30_Witness ==
    /\ last.op = "challengeHandler" /\ last.rejected
    /\ Cardinality(DOMAIN cache) >= 2
    /\ last.invoiceCalls = 1

\* The value validation gets is the value the caller attached: a string as
\* it was, a number as its decimal text, a list or a structure as itself.
SameValue(original, rebuilt) ==
    CASE original.kind = "string" -> rebuilt = original
      [] original.kind = "number" -> rebuilt = StringValue(IntToDec(original.num))
      [] OTHER -> rebuilt = original

(***************************************************************************)
(* C27: caveat serialization is lossless: every caveat a caller can attach *)
(* (list values, structures and values containing " = " included), written *)
(* as "<kind> = <value>" and parsed back at validation, yields the same    *)
(* kind and a value equal to the original.  A list comes back as its       *)
(* comma-joined text, a structure as "[object Object]", a value containing *)
(* " = " cut at the separator, a value with outer blanks trimmed.          *)
(***************************************************************************)
C27_CaveatRoundTripLossless ==
    last.op = "caveatRoundTrip" =>
        /\ Len(last.rebuilt) = 1
        /\ last.rebuilt[1].type = last.caveat.type
        /\ SameValue(last.caveat.value, last.rebuilt[1].value)

(***************************************************************************)
(* C28: validation is stateless and tokens are not single-use: a call of   *)
(* validateToken (directly or by the middleware) leaves the session store, *)
(* the invoices and the issued tokens as they were, and its verdict is the *)
(* verdict of validating the same token with the same request, key and     *)
(* caveats at any earlier time, whatever the store holds and however many  *)
(* validations went before.                                                *)
(***************************************************************************)
C28_ValidationIsStateless ==
    [][/\ last'.op \in {"validateToken", "l402"} =>
            cache' = cache /\ invoices' = invoices /\ settled' = settled /\ wallet' = wallet
       /\ last'.op = "validateToken" =>
            \A t \in {0, now} :
                last'.result = validateToken(last'.req, last'.token, last'.secretKey,
                                             last'.caveats, t)]_vars

\* A token accepted while its session is in the store, and left there.
C28_Witness ==
    /\ last.op = "validateToken" /\ last.result
    /\ last.token.macaroon \in wallet
    /\ IssuedHash(last.token.macaroon) \in DOMAIN cache
    /\ cache[IssuedHash(last.token.macaroon)].v.macaroon = last.token.macaroon

\* The answer of the middleware to the same request without a token.
NoTokenResponse == l402Middleware(options, [last.req EXCEPT !.authorization = NoHeader], last.at).response

RejectedByMiddleware == last.op = "l402" /\ last.matched /\ ~last.response.next

(***************************************************************************)
(* C29: the response of the l402 middleware to a matched request it does   *)
(* not let through is the same for every reason of rejection: no token, a  *)
(* malformed token, an invalid signature, a preimage that does not match,  *)
(* an unsatisfied caveat all get the status, headers and body a request    *)
(* without a token gets for the same path: 402 and the same text.          *)
(***************************************************************************)
C29_RejectionsIndistinguishable ==
    RejectedByMiddleware =>
        /\ last.response = NoTokenResponse
        /\ last.response.status = 402

\* A paid token with the right preimage and signature, refused by a caveat of
\* the host.
C29_Witness ==
    /\ RejectedByMiddleware
    /\ last.token.macaroon \in wallet
    /\ PresentedHash(last.token.preimage) = IssuedHash(last.token.macaroon)
    /\ last.req.method = <<"POST">>
    /\ \E i \in 1..Len(options.caveats) : options.caveats[i].type = <<"method">>

\* The session the store holds for the challenge just issued.
IssuedSession == cache[last.challenge.invoice.paymentHash].v

(***************************************************************************)
(* C31: after every successful createChallengeResponse the store holds,    *)
(* under the invoice's payment hash, a session whose macaroon is the       *)
(* serialized token of the challenge, whose invoice is the created invoice *)
(* and whose secretKey is the key that signed the token, also when the key *)
(* was drawn because the options carry none.                               *)
(***************************************************************************)
C31_SessionRecordsTheChallenge ==
    HandlerIssued =>
        /\ last.challenge.invoice.paymentHash \in DOMAIN cache
        /\ IssuedSession.macaroon = last.challenge.macaroon
        /\ IssuedSession.invoice.paymentHash = last.challenge.invoice.paymentHash
        /\ IssuedSession.invoice.paymentRequest = last.challenge.invoice.paymentRequest
        /\ IssuedSession.invoice.amountSats = last.challenge.invoice.amountSats
        /\ VerifierIsValid(Deserialize(last.challenge.macaroon), HexEncode(IssuedSession.secretKey),
                           Range(IssuedCaveats(last.challenge.macaroon)))
        /\ \A k \in (Keys \cup {<<>>, Uuid(51)}) \ {IssuedSession.secretKey} :
             ~VerifierIsValid(Deserialize(last.challenge.macaroon), HexEncode(k),
                              Range(IssuedCaveats(last.challenge.macaroon)))

\* A challenge issued under options without a key: the session holds the
\* drawn key.
C31_Witness ==
    /\ HandlerIssued
    /\ options.secretKey = <<>>
    /\ IssuedSession.secretKey = Uuid(51)
    /\ IssuedSession.macaroon = last.challenge.macaroon

(***************************************************************************)
(* Vocabulary of the properties about presented tokens.                    *)
(***************************************************************************)
Presented == last.op = "validateToken"

PresentedCaveats == Deserialize(last.token.macaroon).caveats

SignatureVerifies(text) ==
    VerifierIsValid(Deserialize(text), HexEncode(last.secretKey), Range(Deserialize(text).caveats))

\* The bytes the rule of the preimage check picks for a presented text.
HexDigitTokens ==
    {"0", "1", "2", "3", "4", "5", "6", "7", "8", "9",
     "a", "b", "c", "d", "e", "f", "A", "B", "C", "D", "E", "F"}

BytesByRule(preimage) ==
    IF /\ preimage # <<>>
       /\ Len(preimage) % 2 = 0
       /\ \A i \in 1..Len(preimage) : preimage[i] \in HexDigitTokens
    THEN HexDecode(preimage)
    ELSE Utf8Encode(preimage)

(***************************************************************************)
(* C32: the presented preimage is hashed as hex-decoded bytes when it is a *)
(* non-empty, even-length text of hexadecimal digits and as its raw text   *)
(* bytes otherwise; for a token as issued, with no caveat of the host      *)
(* failing, validateToken passes exactly when the SHA-256 digest of those  *)
(* bytes is the hash the issuer embedded, and the embedded value decodes   *)
(* to a 32-byte hash.                                                      *)
(***************************************************************************)
C32_PreimageHashedByRule ==
    (Presented /\ last.how = "issued" /\ last.caveats = <<>>) =>
        /\ last.result <=>
             HexEncode(Sha256(BytesByRule(last.token.preimage))) = IssuedHash(last.token.macaroon)
        /\ Len(IssuedHash(last.token.macaroon)) = 2 * DigestBytes
        /\ Base64Encode(HexDecode(IssuedHash(last.token.macaroon))) = CaveatValue(PresentedCaveats[1])

\* An odd-length text of hex digits accepted as the raw text it is.
C32_Witness ==
    /\ Presented /\ last.how = "issued" /\ last.result
    /\ last.token.preimage = <<"a", "b", "c">>

CarriesNoPaymentHash ==
    \A i \in 1..Len(PresentedCaveats) : ~Includes(PresentedCaveats[i], <<"payment_hash">>)

(***************************************************************************)
(* C33: a token that carries no payment_hash caveat is rejected by         *)
(* validateToken, also when its signature is valid under the secret key,   *)
(* for every preimage, request and list of host caveats.                   *)
(***************************************************************************)
C33_NoPaymentHashRejected ==
    (Presented /\ CarriesNoPaymentHash) => ~last.result

\* Validly signed, no payment_hash caveat, no caveat of the host to fail.
C33_Witness ==
    /\ Presented /\ CarriesNoPaymentHash
    /\ SignatureVerifies(last.token.macaroon)
    /\ last.caveats = <<>>
    /\ ~last.result /\ ~last.threw

(***************************************************************************)
(* C34: from a validly issued token, a token made without the secret key   *)
(* by removing a caveat, altering a caveat's bytes or reordering the       *)
(* caveats fails signature verification and is rejected, for every         *)
(* preimage; a token made by appending caveats through the chaining        *)
(* operation still verifies.                                               *)
(***************************************************************************)
C34_TamperingBreaksSignature ==
    Presented =>
        /\ last.how \in {"removed", "altered", "reordered", "appended"} => SignatureVerifies(last.base)
        /\ last.how \in {"removed", "altered", "reordered"} =>
             ~SignatureVerifies(last.token.macaroon) /\ ~last.result
        /\ last.how = "appended" => SignatureVerifies(last.token.macaroon)

\* The payment hash replaced by the hash of a preimage the holder knows.
C34_Witness ==
    /\ Presented /\ last.how = "altered"
    /\ PresentedCaveats[1] # Deserialize(last.base).caveats[1]
    /\ PresentedHash(last.token.preimage) = IssuedHash(last.token.macaroon)
    /\ last.caveats = <<>>
    /\ ~last.result

\* The hash an appended payment_hash caveat names, if the presented token has
\* such a caveat after the issuer's.
AppendedHashes ==
    {HexEncode(Base64Decode(CaveatValue(PresentedCaveats[i]))) :
        i \in {j \in 2..Len(PresentedCaveats) : Includes(PresentedCaveats[j], <<"payment_hash">>)}}

(***************************************************************************)
(* C38: for an issued token to which its holder appended further caveats,  *)
(* lines naming payment_hash included, validateToken compares the preimage *)
(* with the hash of the issuer's first caveat: the token is accepted only  *)
(* for a preimage of that hash, and, no host caveat failing, for every     *)
(* such preimage; a preimage of an appended hash is never enough.          *)
(***************************************************************************)
C38_AppendedHashNeverUsed ==
    (Presented /\ last.how = "appended") =>
        /\ IssuedHash(last.token.macaroon) = IssuedHash(last.base)
        /\ last.result => PresentedHash(last.token.preimage) = IssuedHash(last.base)
        /\ (last.caveats = <<>> /\ PresentedHash(last.token.preimage) = IssuedHash(last.base))
              => last.result

\* The holder appended the hash of a preimage they know and present it.
C38_Witness ==
    /\ Presented /\ last.how = "appended"
    /\ SignatureVerifies(last.token.macaroon)
    /\ PresentedHash(last.token.preimage) \in AppendedHashes
    /\ PresentedHash(last.token.preimage) # IssuedHash(last.base)
    /\ last.caveats = <<>>
    /\ ~last.result

\* The verdict on the token as issued with no caveats of the host embedded,
\* for the same request, preimage, key, host caveats and time.
VerdictOnBase ==
    validateToken(last.req, Token(last.base, last.token.preimage), last.secretKey, last.caveats, last.at)

Credential(header) == Drop(header, 2)

\* "L402 ", a non-empty part without colon, a colon, a non-empty rest.
TwoPartShape(header) ==
    /\ Len(header) >= 2
    /\ Take(header, 2) = <<"L402", " ">>
    /\ \E i \in 2..(Len(Credential(header)) - 1) :
         /\ Credential(header)[i] = ":"
         /\ \A j \in 1..(i - 1) : Credential(header)[j] # ":"

(***************************************************************************)
(* C35: a credential is parsed into a token exactly when the header is     *)
(* "L402 " followed by a non-empty token part, a colon and a non-empty     *)
(* preimage part; the split is at the first colon: the token part has no   *)
(* colon, the preimage is all that follows that colon, and token, ":" and  *)
(* preimage together are the credential.  "L402 :p" and "L402 m:" are      *)
(* treated as absent.                                                      *)
(***************************************************************************)
C35_CredentialSplitAtFirstColon ==
    last.op = "extractTokenFromHeader" =>
        /\ ~last.token.null <=> TwoPartShape(last.header)
        /\ ~last.token.null =>
             /\ last.token.macaroon # <<>> /\ last.token.preimage # <<>>
             /\ \A i \in 1..Len(last.token.macaroon) : last.token.macaroon[i] # ":"
             /\ last.token.macaroon \o <<":">> \o last.token.preimage = Credential(last.header)
        /\ last.header \in {<<"L402", " ", ":", "p">>, <<"L402", " ", "m", ":">>} => last.token.null

\* A credential with two colons: the second belongs to the preimage.
C35_Witness ==
    /\ last.op = "extractTokenFromHeader"
    /\ last.header = <<"L402", " ", "m", ":", "p", ":">>
    /\ last.token = Token(<<"m">>, <<"p", ":">>)

(***************************************************************************)
(* C36: an expiration caveat created by createExpirationCaveat(w) at time  *)
(* t evaluates true at every time up to t + w seconds and false at every   *)
(* later time.  The caveat keeps whole seconds: created at t = 500 ms with *)
(* w = 5 it still evaluates true at 5999 ms, after t + w s = 5500 ms.      *)
(***************************************************************************)
C36_ExpirationCaveatWindow ==
    last.op = "expirationCaveat" =>
        (last.result <=> last.at <= last.createdAt + last.expiresInSeconds * 1000)

(***************************************************************************)
(* C40: in every identifier createMacaroonIdentifier produces, the 32-byte *)
(* subject id (offsets 2..33) is one 128-bit random identifier in its      *)
(* first 16 bytes followed by 16 zero bytes.  The code fills the second    *)
(* half with the bytes of a second random identifier.                      *)
(***************************************************************************)
C40_SubjectIdZeroFilled ==
    (last.op = "createMacaroonIdentifier" /\ Len(last.identifier) >= 34) =>
        /\ SubSeq(last.identifier, 3, 18) \in Uuids
        /\ \A i \in 19..34 : last.identifier[i] = 0

\* The token between the quotes of macaroon="..." in a WWW-Authenticate value.
EmbeddedToken(wwwAuthenticate) ==
    LET rest == Drop(wwwAuthenticate, 4)
    IN  Take(rest, IndexOf(rest, "\"") - 1)

RouteKeys == {k \in DOMAIN cache : k # <<>> /\ Head(k) = "challenge:"}

(***************************************************************************)
(* C37: whenever a route's cached challenge and the session stored under   *)
(* that challenge's paymentHash both exist, the token in the cached        *)
(* challenge's WWW-Authenticate value is the session's macaroon.  Two      *)
(* requests for different routes whose invoices have the same payment hash *)
(* (the mock client returns one hash for every invoice) leave the first    *)
(* route's challenge with a token that is not the session's.               *)
(***************************************************************************)
C37_CachedChallengeMatchesSession ==
    \A k \in RouteKeys :
        cache[k].v.paymentHash \in DOMAIN cache =>
            EmbeddedToken(cache[k].v.wwwAuthenticate) = cache[cache[k].v.paymentHash].v.macaroon
====
